---- MODULE Spec2Model ----
(***************************************************************************)
(* A model of scripts/generate-insomnia-collection.py: the generator that  *)
(* turns a Swagger 2.0 document into an Insomnia collection.               *)
(*                                                                         *)
(* Representation.                                                         *)
(*  - A Python str that the code inspects character by character (paths,   *)
(*    methods, tags, names, summaries, MIME types, $ref strings) is a      *)
(*    sequence of code points: "/a" is <<47, 97>>.  A str that is only     *)
(*    compared with literals (a schema "type", a parameter "in") and every *)
(*    literal piece of output text is a TLA+ string.                       *)
(*  - A Python dict is a function whose DOMAIN is the set of keys that are *)
(*    present, so d.get(k, default) is Get(d, k, default) and "k in d" is  *)
(*    k \in DOMAIN d.  The empty dict is <<>>.  An ordered dict that the   *)
(*    code iterates (paths, methods, properties) is a sequence of entries  *)
(*    with distinct keys, in document order.                               *)
(*  - An exception that leaves a function is the value Raise(...).         *)
(***************************************************************************)
EXTENDS Integers, Sequences, FiniteSets, TLC

VARIABLES
    spec,       \* the parsed input document handed to generate_collection
    gc,         \* gc[r]: the locals of run r of generate_collection
    now,        \* the wall clock; it advances with every step of any run
    rq,         \* the locals of a call of generate_request_yaml on its own
    sj,         \* the call stack of a call of generate_sample_json on its own
    lint        \* scripts/lint-mermaid.py: main, its pool and the temporary files

vars == <<spec, gc, now, rq, sj, lint>>

(***************************************************************************)
(* Python built-ins the code uses.                                         *)
(***************************************************************************)
Get(d, k, default) == IF k \in DOMAIN d THEN d[k] ELSE default

None == [NoneType |-> TRUE]

Raise(e) == [t |-> "raise", e |-> e]

IsRaise(v) == DOMAIN v = {"t", "e"} /\ v.t = "raise"

Range(s) == {s[i] : i \in 1..Len(s)}

\* s.startswith(p)
StartsWith(s, p) == Len(s) >= Len(p) /\ SubSeq(s, 1, Len(p)) = p

\* s[n:]
Suffix(s, n) == SubSeq(s, n + 1, Len(s))

\* s.replace(old, new) for a non-empty old: every occurrence, left to right
RECURSIVE Replace(_, _, _)
Replace(s, old, new) ==
    IF Len(s) < Len(old) THEN s
    ELSE IF StartsWith(s, old) THEN new \o Replace(Suffix(s, Len(old)), old, new)
    ELSE <<s[1]>> \o Replace(Tail(s), old, new)

\* str.upper(), by the Unicode 14.0 data of the interpreter.  UpperRuns: the
\* code points lo, lo + step, ..., hi go to the code point delta further on.
\* UpperSpecial: the code points that go to more than one.  Every other
\* code point stays.
UpperRuns ==
    <<<<97, 122, 1, -32>>, <<181, 181, 1, 743>>, <<224, 246, 1, -32>>, <<248, 254, 1, -32>>,
    <<255, 255, 1, 121>>, <<257, 303, 2, -1>>, <<305, 305, 1, -232>>, <<307, 311, 2, -1>>,
    <<314, 328, 2, -1>>, <<331, 375, 2, -1>>, <<378, 382, 2, -1>>, <<383, 383, 1, -300>>,
    <<384, 384, 1, 195>>, <<387, 389, 2, -1>>, <<392, 392, 1, -1>>, <<396, 396, 1, -1>>,
    <<402, 402, 1, -1>>, <<405, 405, 1, 97>>, <<409, 409, 1, -1>>, <<410, 410, 1, 163>>,
    <<414, 414, 1, 130>>, <<417, 421, 2, -1>>, <<424, 424, 1, -1>>, <<429, 429, 1, -1>>,
    <<432, 432, 1, -1>>, <<436, 438, 2, -1>>, <<441, 441, 1, -1>>, <<445, 445, 1, -1>>,
    <<447, 447, 1, 56>>, <<453, 453, 1, -1>>, <<454, 454, 1, -2>>, <<456, 456, 1, -1>>,
    <<457, 457, 1, -2>>, <<459, 459, 1, -1>>, <<460, 460, 1, -2>>, <<462, 476, 2, -1>>,
    <<477, 477, 1, -79>>, <<479, 495, 2, -1>>, <<498, 498, 1, -1>>, <<499, 499, 1, -2>>,
    <<501, 501, 1, -1>>, <<505, 543, 2, -1>>, <<547, 563, 2, -1>>, <<572, 572, 1, -1>>,
    <<575, 576, 1, 10815>>, <<578, 578, 1, -1>>, <<583, 591, 2, -1>>, <<592, 592, 1, 10783>>,
    <<593, 593, 1, 10780>>, <<594, 594, 1, 10782>>, <<595, 595, 1, -210>>, <<596, 596, 1, -206>>,
    <<598, 599, 1, -205>>, <<601, 601, 1, -202>>, <<603, 603, 1, -203>>, <<604, 604, 1, 42319>>,
    <<608, 608, 1, -205>>, <<609, 609, 1, 42315>>, <<611, 611, 1, -207>>, <<613, 613, 1, 42280>>,
    <<614, 614, 1, 42308>>, <<616, 616, 1, -209>>, <<617, 617, 1, -211>>, <<618, 618, 1, 42308>>,
    <<619, 619, 1, 10743>>, <<620, 620, 1, 42305>>, <<623, 623, 1, -211>>, <<625, 625, 1, 10749>>,
    <<626, 626, 1, -213>>, <<629, 629, 1, -214>>, <<637, 637, 1, 10727>>, <<640, 640, 1, -218>>,
    <<642, 642, 1, 42307>>, <<643, 643, 1, -218>>, <<647, 647, 1, 42282>>, <<648, 648, 1, -218>>,
    <<649, 649, 1, -69>>, <<650, 651, 1, -217>>, <<652, 652, 1, -71>>, <<658, 658, 1, -219>>,
    <<669, 669, 1, 42261>>, <<670, 670, 1, 42258>>, <<837, 837, 1, 84>>, <<881, 883, 2, -1>>,
    <<887, 887, 1, -1>>, <<891, 893, 1, 130>>, <<940, 940, 1, -38>>, <<941, 943, 1, -37>>,
    <<945, 961, 1, -32>>, <<962, 962, 1, -31>>, <<963, 971, 1, -32>>, <<972, 972, 1, -64>>,
    <<973, 974, 1, -63>>, <<976, 976, 1, -62>>, <<977, 977, 1, -57>>, <<981, 981, 1, -47>>,
    <<982, 982, 1, -54>>, <<983, 983, 1, -8>>, <<985, 1007, 2, -1>>, <<1008, 1008, 1, -86>>,
    <<1009, 1009, 1, -80>>, <<1010, 1010, 1, 7>>, <<1011, 1011, 1, -116>>, <<1013, 1013, 1, -96>>,
    <<1016, 1016, 1, -1>>, <<1019, 1019, 1, -1>>, <<1072, 1103, 1, -32>>, <<1104, 1119, 1, -80>>,
    <<1121, 1153, 2, -1>>, <<1163, 1215, 2, -1>>, <<1218, 1230, 2, -1>>, <<1231, 1231, 1, -15>>,
    <<1233, 1327, 2, -1>>, <<1377, 1414, 1, -48>>, <<4304, 4346, 1, 3008>>, <<4349, 4351, 1, 3008>>,
    <<5112, 5117, 1, -8>>, <<7296, 7296, 1, -6254>>, <<7297, 7297, 1, -6253>>, <<7298, 7298, 1, -6244>>,
    <<7299, 7300, 1, -6242>>, <<7301, 7301, 1, -6243>>, <<7302, 7302, 1, -6236>>, <<7303, 7303, 1, -6181>>,
    <<7304, 7304, 1, 35266>>, <<7545, 7545, 1, 35332>>, <<7549, 7549, 1, 3814>>, <<7566, 7566, 1, 35384>>,
    <<7681, 7829, 2, -1>>, <<7835, 7835, 1, -59>>, <<7841, 7935, 2, -1>>, <<7936, 7943, 1, 8>>,
    <<7952, 7957, 1, 8>>, <<7968, 7975, 1, 8>>, <<7984, 7991, 1, 8>>, <<8000, 8005, 1, 8>>,
    <<8017, 8023, 2, 8>>, <<8032, 8039, 1, 8>>, <<8048, 8049, 1, 74>>, <<8050, 8053, 1, 86>>,
    <<8054, 8055, 1, 100>>, <<8056, 8057, 1, 128>>, <<8058, 8059, 1, 112>>, <<8060, 8061, 1, 126>>,
    <<8112, 8113, 1, 8>>, <<8126, 8126, 1, -7205>>, <<8144, 8145, 1, 8>>, <<8160, 8161, 1, 8>>,
    <<8165, 8165, 1, 7>>, <<8526, 8526, 1, -28>>, <<8560, 8575, 1, -16>>, <<8580, 8580, 1, -1>>,
    <<9424, 9449, 1, -26>>, <<11312, 11359, 1, -48>>, <<11361, 11361, 1, -1>>, <<11365, 11365, 1, -10795>>,
    <<11366, 11366, 1, -10792>>, <<11368, 11372, 2, -1>>, <<11379, 11379, 1, -1>>, <<11382, 11382, 1, -1>>,
    <<11393, 11491, 2, -1>>, <<11500, 11502, 2, -1>>, <<11507, 11507, 1, -1>>, <<11520, 11557, 1, -7264>>,
    <<11559, 11559, 1, -7264>>, <<11565, 11565, 1, -7264>>, <<42561, 42605, 2, -1>>, <<42625, 42651, 2, -1>>,
    <<42787, 42799, 2, -1>>, <<42803, 42863, 2, -1>>, <<42874, 42876, 2, -1>>, <<42879, 42887, 2, -1>>,
    <<42892, 42892, 1, -1>>, <<42897, 42899, 2, -1>>, <<42900, 42900, 1, 48>>, <<42903, 42921, 2, -1>>,
    <<42933, 42947, 2, -1>>, <<42952, 42954, 2, -1>>, <<42961, 42961, 1, -1>>, <<42967, 42969, 2, -1>>,
    <<42998, 42998, 1, -1>>, <<43859, 43859, 1, -928>>, <<43888, 43967, 1, -38864>>, <<65345, 65370, 1, -32>>,
    <<66600, 66639, 1, -40>>, <<66776, 66811, 1, -40>>, <<66967, 67003, 2, -39>>, <<66968, 66976, 2, -39>>,
    <<66980, 66992, 2, -39>>, <<66996, 67000, 2, -39>>, <<67004, 67004, 1, -39>>, <<68800, 68850, 1, -64>>,
    <<71872, 71903, 1, -32>>, <<93792, 93823, 1, -32>>, <<125218, 125251, 1, -34>>>>

UpperSpecial ==
    <<<<223, <<83, 83>>>>, <<329, <<700, 78>>>>, <<496, <<74, 780>>>>,
    <<912, <<921, 776, 769>>>>, <<944, <<933, 776, 769>>>>, <<1415, <<1333, 1362>>>>,
    <<7830, <<72, 817>>>>, <<7831, <<84, 776>>>>, <<7832, <<87, 778>>>>,
    <<7833, <<89, 778>>>>, <<7834, <<65, 702>>>>, <<8016, <<933, 787>>>>,
    <<8018, <<933, 787, 768>>>>, <<8020, <<933, 787, 769>>>>, <<8022, <<933, 787, 834>>>>,
    <<8064, <<7944, 921>>>>, <<8065, <<7945, 921>>>>, <<8066, <<7946, 921>>>>,
    <<8067, <<7947, 921>>>>, <<8068, <<7948, 921>>>>, <<8069, <<7949, 921>>>>,
    <<8070, <<7950, 921>>>>, <<8071, <<7951, 921>>>>, <<8072, <<7944, 921>>>>,
    <<8073, <<7945, 921>>>>, <<8074, <<7946, 921>>>>, <<8075, <<7947, 921>>>>,
    <<8076, <<7948, 921>>>>, <<8077, <<7949, 921>>>>, <<8078, <<7950, 921>>>>,
    <<8079, <<7951, 921>>>>, <<8080, <<7976, 921>>>>, <<8081, <<7977, 921>>>>,
    <<8082, <<7978, 921>>>>, <<8083, <<7979, 921>>>>, <<8084, <<7980, 921>>>>,
    <<8085, <<7981, 921>>>>, <<8086, <<7982, 921>>>>, <<8087, <<7983, 921>>>>,
    <<8088, <<7976, 921>>>>, <<8089, <<7977, 921>>>>, <<8090, <<7978, 921>>>>,
    <<8091, <<7979, 921>>>>, <<8092, <<7980, 921>>>>, <<8093, <<7981, 921>>>>,
    <<8094, <<7982, 921>>>>, <<8095, <<7983, 921>>>>, <<8096, <<8040, 921>>>>,
    <<8097, <<8041, 921>>>>, <<8098, <<8042, 921>>>>, <<8099, <<8043, 921>>>>,
    <<8100, <<8044, 921>>>>, <<8101, <<8045, 921>>>>, <<8102, <<8046, 921>>>>,
    <<8103, <<8047, 921>>>>, <<8104, <<8040, 921>>>>, <<8105, <<8041, 921>>>>,
    <<8106, <<8042, 921>>>>, <<8107, <<8043, 921>>>>, <<8108, <<8044, 921>>>>,
    <<8109, <<8045, 921>>>>, <<8110, <<8046, 921>>>>, <<8111, <<8047, 921>>>>,
    <<8114, <<8122, 921>>>>, <<8115, <<913, 921>>>>, <<8116, <<902, 921>>>>,
    <<8118, <<913, 834>>>>, <<8119, <<913, 834, 921>>>>, <<8124, <<913, 921>>>>,
    <<8130, <<8138, 921>>>>, <<8131, <<919, 921>>>>, <<8132, <<905, 921>>>>,
    <<8134, <<919, 834>>>>, <<8135, <<919, 834, 921>>>>, <<8140, <<919, 921>>>>,
    <<8146, <<921, 776, 768>>>>, <<8147, <<921, 776, 769>>>>, <<8150, <<921, 834>>>>,
    <<8151, <<921, 776, 834>>>>, <<8162, <<933, 776, 768>>>>, <<8163, <<933, 776, 769>>>>,
    <<8164, <<929, 787>>>>, <<8166, <<933, 834>>>>, <<8167, <<933, 776, 834>>>>,
    <<8178, <<8186, 921>>>>, <<8179, <<937, 921>>>>, <<8180, <<911, 921>>>>,
    <<8182, <<937, 834>>>>, <<8183, <<937, 834, 921>>>>, <<8188, <<937, 921>>>>,
    <<64256, <<70, 70>>>>, <<64257, <<70, 73>>>>, <<64258, <<70, 76>>>>,
    <<64259, <<70, 70, 73>>>>, <<64260, <<70, 70, 76>>>>, <<64261, <<83, 84>>>>,
    <<64262, <<83, 84>>>>, <<64275, <<1348, 1350>>>>, <<64276, <<1348, 1333>>>>,
    <<64277, <<1348, 1339>>>>, <<64278, <<1358, 1350>>>>, <<64279, <<1348, 1341>>>>>>

\* c.upper() for a str of one code point: a str of one to three
UpperChar(c) ==
    IF c < 128 THEN <<IF c >= 97 /\ c <= 122 THEN c - 32 ELSE c>>
    ELSE IF \E k \in 1..Len(UpperSpecial) : UpperSpecial[k][1] = c
    THEN UpperSpecial[CHOOSE k \in 1..Len(UpperSpecial) : UpperSpecial[k][1] = c][2]
    ELSE IF \E k \in 1..Len(UpperRuns) :
                /\ UpperRuns[k][1] <= c /\ c <= UpperRuns[k][2]
                /\ (c - UpperRuns[k][1]) % UpperRuns[k][3] = 0
    THEN <<c + UpperRuns[CHOOSE k \in 1..Len(UpperRuns) :
                             /\ UpperRuns[k][1] <= c /\ c <= UpperRuns[k][2]
                             /\ (c - UpperRuns[k][1]) % UpperRuns[k][3] = 0][4]>>
    ELSE <<c>>

\* s.upper()
RECURSIVE Upper(_)
Upper(s) == IF s = <<>> THEN <<>> ELSE UpperChar(s[1]) \o Upper(Tail(s))

\* s < t for two str: by code point, a proper prefix first
RECURSIVE StrLess(_, _)
StrLess(s, t) ==
    IF t = <<>> THEN FALSE
    ELSE IF s = <<>> THEN TRUE
    ELSE IF s[1] # t[1] THEN s[1] < t[1]
    ELSE StrLess(Tail(s), Tail(t))

(***************************************************************************)
(* Literal text of the source, as code points.                             *)
(***************************************************************************)
s_other == <<111, 116, 104, 101, 114>>                      \* "other"
s_meta == <<109, 101, 116, 97>>                             \* "meta"
s_chain == <<99, 104, 97, 105, 110>>                        \* "chain"
s_game == <<103, 97, 109, 101>>                             \* "game"
s_folder == <<102, 111, 108, 100, 101, 114, 58>>            \* "folder:"
s_string == <<115, 116, 114, 105, 110, 103>>                \* "string"
s_app_json == <<97, 112, 112, 108, 105, 99, 97, 116, 105, 111, 110, 47,
                106, 115, 111, 110>>                        \* "application/json"
s_defs == <<35, 47, 100, 101, 102, 105, 110, 105, 116, 105, 111, 110,
            115, 47>>                                       \* "#/definitions/"
s_POST == <<80, 79, 83, 84>>                                \* "POST"
s_PUT == <<80, 85, 84>>                                     \* "PUT"
s_PATCH == <<80, 65, 84, 67, 72>>                           \* "PATCH"
s_open == <<123, 123, 32, 95, 46>>                          \* "{{ _."
s_close == <<32, 125, 125>>                                 \* " }}"
s_dash == <<45, 32>>                                        \* "- "
s_special == <<58, 123, 125, 91, 93, 38, 42, 63, 124, 62, 33, 37, 64, 96,
               35, 44, 10>>                                 \* ':{}[]&*?|>!%@`#,\n'
s_unknown == <<117, 110, 107, 110, 111, 119, 110>>          \* "unknown"
s_False == <<70, 97, 108, 115, 101>>                        \* "False"
s_True == <<84, 114, 117, 101>>                             \* "True"
s_wrk == <<119, 111, 114, 108, 100, 45, 97, 112, 105, 45, 99, 111, 108,
           108, 101, 99, 116, 105, 111, 110>>               \* "world-api-collection"
s_jar == <<100, 101, 102, 97, 117, 108, 116, 45, 99, 111, 111, 107, 105,
           101, 45, 106, 97, 114>>                          \* "default-cookie-jar"
s_base_env == <<98, 97, 115, 101, 45, 101, 110, 118, 105, 114, 111, 110,
                109, 101, 110, 116>>                        \* "base-environment"
s_still_env == <<115, 116, 105, 108, 108, 110, 101, 115, 115, 45, 101,
                 110, 118, 105, 114, 111, 110, 109, 101, 110, 116>>
                                                            \* "stillness-environment"

(***************************************************************************)
(* md5_id: the digest is not computed; it is kept as the seed it was taken *)
(* of, so two ids are equal exactly when prefix and seed are (the digest   *)
(* taken as injective on the seeds of one document).  seed.encode() of     *)
(* line 22 raises UnicodeEncodeError for a seed that holds a surrogate     *)
(* code point (U+D800..U+DFFF), which UTF-8 cannot encode.                 *)
(***************************************************************************)
\* an id drawn from the clock instead of the seed
md5_id_clock(prefix, seed) == [prefix |-> prefix, md5 |-> <<now>>]

md5_id(prefix, seed) ==
    IF \E i \in 1..Len(seed) : seed[i] \in 55296..57343
    THEN Raise("UnicodeEncodeError")
    ELSE [prefix |-> prefix, md5 |-> seed]

(***************************************************************************)
(* resolve_ref and generate_sample_json.                                   *)
(* A JSON value is [t |-> "obj", fields |-> <<[k, v], ...>>],              *)
(* [t |-> "arr", items |-> <<v>>], [t |-> "str", s |-> text],              *)
(* [t |-> "int", n |-> 0] or [t |-> "bool", b |-> FALSE].                  *)
(***************************************************************************)
resolve_ref(sp, ref) ==
    IF ~StartsWith(ref, s_defs) THEN None
    ELSE LET name == Suffix(ref, Len(s_defs)) IN
         Get(Get(sp, "definitions", <<>>), name, None)

\* "if resolved:" -- None and the empty dict are both false
Truthy(d) == d # None /\ DOMAIN d # {}

EmptyObj == [t |-> "obj", fields |-> <<>>]

\* the first exception met while building the children, if any
FirstRaise(vals) ==
    IF \E i \in 1..Len(vals) : IsRaise(vals[i])
    THEN vals[CHOOSE i \in 1..Len(vals) :
                  IsRaise(vals[i]) /\ \A j \in 1..(i - 1) : ~IsRaise(vals[j])]
    ELSE None

\* a cutoff two levels later
depth_exceeded_late(depth) == depth > 6

\* line 36: the cutoff
depth_exceeded(depth) == depth > 4

RECURSIVE generate_sample_json(_, _, _)
generate_sample_json(sp, schema, depth) ==
    IF depth_exceeded(depth) THEN EmptyObj
    ELSE IF "$ref" \in DOMAIN schema THEN
        LET resolved == resolve_ref(sp, schema["$ref"]) IN
        IF Truthy(resolved) THEN generate_sample_json(sp, resolved, depth + 1)
        ELSE EmptyObj
    ELSE LET schema_type == Get(schema, "type", "object") IN
    IF schema_type = "string" THEN
        IF "enum" \in DOMAIN schema THEN
            IF Len(schema["enum"]) = 0 THEN Raise("IndexError")
            ELSE [t |-> "str", s |-> schema["enum"][1]]
        ELSE [t |-> "str", s |-> s_string]
    ELSE IF schema_type = "integer" THEN [t |-> "int", n |-> 0]
    ELSE IF schema_type = "number" THEN [t |-> "int", n |-> 0]
    ELSE IF schema_type = "boolean" THEN [t |-> "bool", b |-> FALSE]
    ELSE IF schema_type = "array" THEN
        LET items == Get(schema, "items", <<>>)
            v == generate_sample_json(sp, items, depth + 1)
        IN  IF IsRaise(v) THEN v ELSE [t |-> "arr", items |-> <<v>>]
    ELSE IF schema_type = "object" \/ "properties" \in DOMAIN schema THEN
        LET props == Get(schema, "properties", <<>>) IN
        IF Len(props) = 0 /\ "additionalProperties" \in DOMAIN schema THEN EmptyObj
        ELSE LET obj == [i \in 1..Len(props) |->
                            [k |-> props[i].k,
                             v |-> generate_sample_json(sp, props[i].v, depth + 1)]]
                 vals == [i \in 1..Len(props) |-> obj[i].v]
             IN  IF FirstRaise(vals) # None THEN FirstRaise(vals)
                 ELSE [t |-> "obj", fields |-> obj]
    ELSE EmptyObj

(***************************************************************************)
(* str(v) and truth of a JSON value used as a parameter example.           *)
(***************************************************************************)
RECURSIVE IntStr(_)
IntStr(n) ==
    IF n < 0 THEN <<45>> \o IntStr(-n)
    ELSE IF n < 10 THEN <<48 + n>>
    ELSE IntStr(n \div 10) \o <<48 + (n % 10)>>

PyStr(v) ==
    IF v.t = "str" THEN v.s
    ELSE IF v.t = "int" THEN IntStr(v.n)
    ELSE IF v.b THEN s_True ELSE s_False

PyTruthy(v) ==
    IF v.t = "str" THEN v.s # <<>>
    ELSE IF v.t = "int" THEN v.n # 0
    ELSE v.b

EmptyStr == [t |-> "str", s |-> <<>>]

(***************************************************************************)
(* yaml_escape                                                             *)
(***************************************************************************)
needs_quote(s) ==
    \/ \E i \in 1..Len(s) : s[i] \in Range(s_special)
    \/ StartsWith(s, s_dash)

yaml_escape(s) ==
    IF s = <<>> THEN <<34, 34>>
    ELSE IF needs_quote(s)
         THEN <<34>> \o Replace(Replace(s, <<92>>, <<92, 92>>), <<34>>, <<92, 34>>)
                     \o <<34>>
         ELSE s

(***************************************************************************)
(* format_url_path                                                         *)
(***************************************************************************)
RECURSIVE format_url_path(_, _)
format_url_path(path, params) ==
    IF params = <<>> THEN path
    ELSE LET param == Head(params)
             example == Get(param, "example", EmptyStr)
             url_path ==
                 IF Get(param, "in", "") = "path" THEN
                     IF PyTruthy(example)
                     THEN Replace(path, <<123>> \o param["name"] \o <<125>>,
                                  PyStr(example))
                     ELSE Replace(path, <<123>> \o param["name"] \o <<125>>,
                                  s_open \o param["name"] \o s_close)
                 ELSE path
         IN  format_url_path(url_path, Tail(params))

(***************************************************************************)
(* description.strip().split("\n")                                         *)
(***************************************************************************)
\* the code points str.strip() removes: those of str.isspace()
IsSpace(c) ==
    c \in {9, 10, 11, 12, 13, 28, 29, 30, 31, 32, 133, 160,
           5760, 8192, 8193, 8194, 8195, 8196, 8197, 8198, 8199, 8200, 8201, 8202,
           8232, 8233, 8239, 8287, 12288}

RECURSIVE LStrip(_)
LStrip(s) == IF s # <<>> /\ IsSpace(s[1]) THEN LStrip(Tail(s)) ELSE s

RECURSIVE RStrip(_)
RStrip(s) ==
    IF s # <<>> /\ IsSpace(s[Len(s)]) THEN RStrip(SubSeq(s, 1, Len(s) - 1)) ELSE s

Strip(s) == RStrip(LStrip(s))

RECURSIVE SplitLines(_)
SplitLines(s) ==
    IF \E i \in 1..Len(s) : s[i] = 10
    THEN LET i == CHOOSE i \in 1..Len(s) :
                      s[i] = 10 /\ \A j \in 1..(i - 1) : s[j] # 10
         IN  <<SubSeq(s, 1, i - 1)>> \o SplitLines(Suffix(s, i))
    ELSE <<s>>

(***************************************************************************)
(* generate_request_yaml.  The fragment is the list "lines" the function   *)
(* joins: one record per appended line, k the literal text of the f-string *)
(* with {} where a value is interpolated, and the value beside it.  The    *)
(* lines of the json.dumps text of the body are one record that keeps the  *)
(* sample value.  The result is Raise(...) when the sample raises.         *)
(***************************************************************************)
Lit(k) == [k |-> k]

Txt(k, v) == [k |-> k, v |-> v]

Num(k, n) == [k |-> k, n |-> n]

Ident(k, id) == [k |-> k, id |-> id]

Json(k, j) == [k |-> k, json |-> j]

BodyMethods == {s_POST, s_PUT, s_PATCH}

\* next((p for p in params if p.get("in") == kind), None)
first_param(params, kind) ==
    IF \E i \in 1..Len(params) : Get(params[i], "in", "") = kind
    THEN params[CHOOSE i \in 1..Len(params) :
                    /\ Get(params[i], "in", "") = kind
                    /\ \A j \in 1..(i - 1) : Get(params[j], "in", "") # kind]
    ELSE None

\* lines 115-141: url, name, meta, description, sortKey, method
request_head(path, method, op, sort_key) ==
    LET params == Get(op, "parameters", <<>>)
        url_path == format_url_path(path, params)
        req_id == md5_id("req", method \o <<58>> \o path)
        summary == Get(op, "summary", Upper(method) \o <<32>> \o path)
        description == Get(op, "description", <<>>)
        desc_lines == SplitLines(Strip(description))
    IN  IF IsRaise(req_id) THEN req_id ELSE
        << Lit("      - url: >-"),
           Txt("            {{ _.base_url }}{}", url_path),
           Txt("        name: {}", summary),
           Lit("        meta:"),
           Ident("          id: {}", req_id),
           Lit("          created: 1749660554120"),
           Lit("          modified: 1749660554120"),
           Lit("          isPrivate: false") >>
        \o (IF description = <<>> THEN <<>>
            ELSE IF Len(desc_lines) = 1
                 THEN <<Txt("          description: {}", yaml_escape(desc_lines[1]))>>
                 ELSE <<Lit("          description: |-")>>
                      \o [i \in 1..Len(desc_lines) |->
                             Txt("            {}", desc_lines[i])])
        \o << Num("          sortKey: {}", sort_key),
              Txt("        method: {}", Upper(method)) >>

\* lines 143-161: body and Content-Type for POST/PUT/PATCH
request_body(sp, method, op) ==
    LET params == Get(op, "parameters", <<>>)
        body_param == first_param(params, "body")
    IN  IF Upper(method) \in BodyMethods
           /\ body_param # None /\ "schema" \in DOMAIN body_param
        THEN LET sample == generate_sample_json(sp, body_param["schema"], 0)
                 consumes == Get(op, "consumes", <<s_app_json>>)
                 mime == IF consumes # <<>> THEN consumes[1] ELSE s_app_json
             IN  IF IsRaise(sample) THEN sample
                 ELSE << Lit("        body:"),
                         Txt("          mimeType: {}", mime),
                         Lit("          text: |-"),
                         Json("            {}", sample),
                         Lit("        headers:"),
                         Lit("          - name: Content-Type"),
                         Lit("            disabled: false"),
                         Txt("            value: {}", mime) >>
        ELSE <<>>

\* lines 163-171: query parameters
request_query(op) ==
    LET params == Get(op, "parameters", <<>>)
        query_params == SelectSeq(params, LAMBDA p : Get(p, "in", "") = "query")
        entry(qp) == << Txt("          - name: {}", qp["name"]),
                        Lit("            disabled: true"),
                        Txt("            value: \"{}\"",
                            PyStr(Get(qp, "example", EmptyStr))) >>
        RECURSIVE entries(_)
        entries(qs) == IF qs = <<>> THEN <<>> ELSE entry(Head(qs)) \o entries(Tail(qs))
    IN  IF query_params # <<>>
        THEN <<Lit("        parameters:")>> \o entries(query_params)
        ELSE <<>>

\* lines 173-183: the Authorization header of a secured operation
request_auth(method, op) ==
    LET params == Get(op, "parameters", <<>>)
        has_security == Get(op, "security", <<>>) # <<>>
    IN  IF has_security
        THEN (IF Upper(method) \notin BodyMethods
                 \/ first_param(params, "body") = None
              THEN <<Lit("        headers:")>> ELSE <<>>)
             \o << Lit("          - name: Authorization"),
                   Lit("            disabled: false"),
                   Lit("            value: >-"),
                   Lit("              {{ _.api_key }}") >>
        ELSE <<>>

\* lines 185-193: settings
request_settings ==
    << Lit("        settings:"),
       Lit("          renderRequestBody: true"),
       Lit("          encodeUrl: true"),
       Lit("          followRedirects: global"),
       Lit("          cookies:"),
       Lit("            send: true"),
       Lit("            store: true"),
       Lit("          rebuildPath: true") >>

generate_request_yaml(sp, path, method, op, sort_key) ==
    LET head == request_head(path, method, op, sort_key)
        body == request_body(sp, method, op)
    IN  IF IsRaise(head) THEN head
        ELSE IF IsRaise(body) THEN body
        ELSE head \o body \o request_query(op) \o request_auth(method, op)
             \o request_settings

(***************************************************************************)
(* generate_collection, lines 200-222: grouping by tag.                    *)
(* "tags" is the insertion-ordered dict of the code: a sequence of         *)
(* [tag, endpoints], endpoints a list of (path, method, op).               *)
(***************************************************************************)
tag_order == <<s_meta, s_chain, s_game>>

\* isinstance(op, dict): a JSON list is [pylist |-> items]
IsDict(v) == DOMAIN v # {"pylist"}

\* every (path, method, op) of spec.get("paths", {}) in iteration order
RECURSIVE path_items(_)
path_items(paths) ==
    IF paths = <<>> THEN <<>>
    ELSE [i \in 1..Len(Head(paths).v) |->
             [path |-> Head(paths).k,
              method |-> Head(paths).v[i].k,
              op |-> Head(paths).v[i].v]]
         \o path_items(Tail(paths))

has_tag(tags, tag) == \E i \in 1..Len(tags) : tags[i].tag = tag

\* tags.setdefault(tag, []).append(ep)
setdefault_append(tags, tag, ep) ==
    IF has_tag(tags, tag)
    THEN [i \in 1..Len(tags) |->
             IF tags[i].tag = tag
             THEN [tags[i] EXCEPT !.endpoints = Append(@, ep)]
             ELSE tags[i]]
    ELSE Append(tags, [tag |-> tag, endpoints |-> <<ep>>])

\* op.get("tags", ["other"])
op_tags_of(op) == Get(op, "tags", <<s_other>>)

RECURSIVE add_to_tags(_, _, _)
add_to_tags(tags, op_tags, ep) ==
    IF op_tags = <<>> THEN tags
    ELSE add_to_tags(setdefault_append(tags, Head(op_tags), ep), Tail(op_tags), ep)

\* every object counts, with or without responses
is_valid_op_any_object(op) == IsDict(op)

\* line 207: the entries the loop does not skip
is_valid_op(op) == IsDict(op) /\ "responses" \in DOMAIN op

RECURSIVE group_by_tag(_, _)
group_by_tag(tags, eps) ==
    IF eps = <<>> THEN tags
    ELSE LET ep == Head(eps) IN
         IF ~is_valid_op(ep.op) THEN group_by_tag(tags, Tail(eps))
         ELSE group_by_tag(add_to_tags(tags, op_tags_of(ep.op), ep), Tail(eps))

\* key=lambda x: (x[0], x[1]), compared as Python compares tuples of str
key_less(a, b) ==
    \/ StrLess(a.path, b.path)
    \/ a.path = b.path /\ StrLess(a.method, b.method)

\* list.sort is stable: an element goes after every element not greater
RECURSIVE sort_insert(_, _)
sort_insert(sorted, ep) ==
    IF sorted = <<>> THEN <<ep>>
    ELSE IF key_less(ep, Head(sorted)) THEN <<ep>> \o sorted
    ELSE <<Head(sorted)>> \o sort_insert(Tail(sorted), ep)

RECURSIVE sort_endpoints(_)
sort_endpoints(eps) ==
    IF eps = <<>> THEN <<>>
    ELSE sort_insert(sort_endpoints(SubSeq(eps, 1, Len(eps) - 1)), eps[Len(eps)])

sort_tags(tags) ==
    [i \in 1..Len(tags) |->
        [tags[i] EXCEPT !.endpoints = sort_endpoints(@)]]

\* the security key merely present
is_secured_key_present(op) == "security" \in DOMAIN op

\* op.get("security") taken as a condition
is_secured(op) == Get(op, "security", <<>>) # <<>>

secured_tags_of(tags) ==
    {tags[i].tag : i \in {j \in 1..Len(tags) :
        \E e \in 1..Len(tags[j].endpoints) : is_secured(tags[j].endpoints[e].op)}}

\* the grouping's own order, the preferred names not put first
extend_all_tags_unordered(all_tags, tags) == [i \in 1..Len(tags) |-> tags[i].tag]

\* lines 236-239
RECURSIVE extend_all_tags(_, _)
extend_all_tags(all_tags, tags) ==
    IF tags = <<>> THEN all_tags
    ELSE IF Head(tags).tag \in Range(all_tags)
         THEN extend_all_tags(all_tags, Tail(tags))
         ELSE extend_all_tags(Append(all_tags, Head(tags).tag), Tail(tags))

endpoints_of(tags, tag) ==
    tags[CHOOSE i \in 1..Len(tags) : tags[i].tag = tag].endpoints

(***************************************************************************)
(* generate_collection, lines 224-306: the emitted lines.  sort_counter    *)
(* and every sortKey are kept as the offset from -1749660554120, the value *)
(* line 233 starts the counter at (it does not fit TLC's integers): the    *)
(* model's 0 is the code's -1749660554120, the model's -1 is               *)
(* -1749660554121.                                                         *)
(***************************************************************************)
header_lines(sp) ==
    << Lit("type: collection.insomnia.rest/5.0"),
       Txt("name: EVE Frontier World API ({})",
           Get(Get(sp, "info", <<>>), "version", s_unknown)),
       Lit("meta:"),
       Ident("  id: {}", md5_id("wrk", s_wrk)),
       Lit("  created: 1749660438111"),
       Lit("  modified: 1749660438111"),
       Lit("collection:") >>

folder_lines(tag, sort_counter) ==
    LET folder_id == md5_id("fld", s_folder \o tag) IN
    IF IsRaise(folder_id) THEN folder_id ELSE
    << Txt("  - name: {}", tag),
       Lit("    meta:"),
       Ident("      id: {}", folder_id),
       Lit("      created: 1749660554120"),
       Lit("      modified: 1749660554120"),
       Num("      sortKey: {}", sort_counter),
       Lit("    children:") >>

folder_auth_lines ==
    << Lit("    authentication:"),
       Lit("      type: bearer"),
       Lit("      token: >-"),
       Lit("        {{ _.api_key }}") >>

footer_lines ==
    << Lit("cookieJar:"),
       Lit("  name: Default Jar"),
       Lit("  meta:"),
       Ident("    id: {}", md5_id("jar", s_jar)),
       Lit("    created: 1749660438113"),
       Lit("    modified: 1749660438113"),
       Lit("environments:"),
       Lit("  name: Base Environment"),
       Lit("  meta:"),
       Ident("    id: {}", md5_id("env", s_base_env)),
       Lit("    created: 1749660438112"),
       Lit("    modified: 1749660438112"),
       Lit("    isPrivate: false"),
       Lit("  data:"),
       Lit("    scheme: https"),
       Lit("    base_path: \"\""),
       Lit("    base_url: >-"),
       Lit("      {{ _.scheme }}://{{ _.host }}{{ _.base_path }}"),
       Lit("  subEnvironments:"),
       Lit("    - name: Stillness"),
       Lit("      meta:"),
       Ident("        id: {}", md5_id("env", s_still_env)),
       Lit("        created: 1749660554120"),
       Lit("        modified: 1749660554120"),
       Lit("        isPrivate: false"),
       Lit("        sortKey: 1749660554120"),
       Lit("      data:"),
       Lit("        host: blockchain-gateway-stillness.live.tech.evefrontier.com"),
       Lit("        api_key: eyABC.123"),
       Lit("      color: \"#ff4a00\"") >>

\* the request fragment is one element of "lines" (line 259)
Frag(req_yaml) == [frag |-> req_yaml]

(***************************************************************************)
(* The input documents.                                                    *)
(***************************************************************************)
MaxPaths == 2
MaxMethods == 2
MaxOps == 2
MaxTags == 2

s_zeta == <<122, 101, 116, 97>>                             \* "zeta"
s_path_a == <<47, 97>>                                      \* "/a"
s_path_b == <<47, 98>>                                      \* "/b"
s_get == <<103, 101, 116>>                                  \* "get"
s_post == <<112, 111, 115, 116>>                            \* "post"

SeqsUpTo(S, n) == UNION {[1..k -> S] : k \in 0..n}

Distinct(s) == \A i, j \in 1..Len(s) : i # j => s[i] # s[j]

PathNames == {s_path_a, s_path_b}
MethodNames == {s_get, s_post}
TagNames == {s_meta, s_game, s_zeta}

\* a key that may be absent: the dicts with and without it
Optional(k, values) == {<<>>} \cup {k :> v : v \in values}

NonEmptySecurity == <<[ApiKeyAuth |-> <<>>]>>

\* every tag list with and without security, and one empty security list
ValidOps ==
    {[responses |-> <<>>] @@ tg @@ sc :
        tg \in Optional("tags", SeqsUpTo(TagNames, MaxTags)),
        sc \in Optional("security", {NonEmptySecurity})}
    \cup {[responses |-> <<>>, tags |-> <<s_meta>>, security |-> <<>>]}

\* entries line 207 skips: a JSON list, and an object with no "responses"
SkippedOps ==
    {[pylist |-> <<>>],
     [tags |-> <<s_zeta>>, security |-> NonEmptySecurity]}

Ops == ValidOps \cup SkippedOps

\* the number of operations before path i of a shape
RECURSIVE ops_before(_, _)
ops_before(sh, i) == IF i = 1 THEN 0 ELSE ops_before(sh, i - 1) + Len(sh[i - 1].v)

n_ops(sh) == ops_before(sh, Len(sh) + 1)

\* the keys of "paths" and of each path's methods, in document order
Shapes ==
    {sh \in SeqsUpTo([k : PathNames,
                      v : {m \in SeqsUpTo(MethodNames, MaxMethods) :
                              Len(m) >= 1 /\ Distinct(m)}], MaxPaths) :
        /\ \A i, j \in 1..Len(sh) : i # j => sh[i].k # sh[j].k
        /\ n_ops(sh) <= MaxOps}

fill_shape(sh, ops) ==
    [i \in 1..Len(sh) |->
        [k |-> sh[i].k,
         v |-> [j \in 1..Len(sh[i].v) |->
                   [k |-> sh[i].v[j], v |-> ops[ops_before(sh, i) + j]]]]]

\* spec is one of the documents of these shapes and operations
IsDoc(sp) ==
    \E sh \in Shapes : \E ops \in [1..n_ops(sh) -> Ops] :
        sp = [info |-> [version |-> <<49>>], paths |-> fill_shape(sh, ops)]

(***************************************************************************)
(* The runs of generate_collection.                                        *)
(***************************************************************************)
Runs == {1, 2}

\* no call of generate_request_yaml or generate_sample_json on its own
IdleRequest == [pc |-> "idle"]

IdleSample == [pc |-> "idle"]

IdleLint == [pc |-> "idle"]

IdleRun ==
    [pc |-> "idle", tags |-> <<>>, secured_tags |-> {}, lines |-> <<>>,
     sort_counter |-> 0, all_tags |-> <<>>, ti |-> 0, ei |-> 0]

StartRun == [IdleRun EXCEPT !.pc = "start"]

\* lines 200-239: grouping, sorting, secured tags, header, counter, all_tags
Group(r) ==
    /\ gc[r].pc = "start"
    /\ LET tags == sort_tags(group_by_tag(<<>>, path_items(Get(spec, "paths", <<>>))))
       IN  gc' = [gc EXCEPT ![r] =
                    [pc |-> "folders",
                     tags |-> tags,
                     secured_tags |-> secured_tags_of(tags),
                     lines |-> header_lines(spec),
                     sort_counter |-> 0,
                     all_tags |-> extend_all_tags(tag_order, tags),
                     ti |-> 1, ei |-> 0]]
    /\ now' = now + 1
    /\ UNCHANGED <<spec, rq, sj, lint>>

\* lines 241-243: a tag of all_tags with no endpoints is passed over
SkipTag(r) ==
    /\ gc[r].pc = "folders"
    /\ gc[r].ti <= Len(gc[r].all_tags)
    /\ ~has_tag(gc[r].tags, gc[r].all_tags[gc[r].ti])
    /\ gc' = [gc EXCEPT ![r].ti = @ + 1]
    /\ now' = now + 1
    /\ UNCHANGED <<spec, rq, sj, lint>>

\* lines 244-254: the folder's lines; the counter goes down by one; the
\* md5_id of line 245 may raise, and the run ends there
EmitFolder(r) ==
    /\ gc[r].pc = "folders"
    /\ gc[r].ti <= Len(gc[r].all_tags)
    /\ has_tag(gc[r].tags, gc[r].all_tags[gc[r].ti])
    /\ LET folder == folder_lines(gc[r].all_tags[gc[r].ti], gc[r].sort_counter)
       IN  IF IsRaise(folder)
           THEN gc' = [gc EXCEPT ![r].pc = "raised"]
           ELSE gc' = [gc EXCEPT ![r].lines = @ \o folder,
                                 ![r].sort_counter = @ - 1,
                                 ![r].ei = 1,
                                 ![r].pc = "requests"]
    /\ now' = now + 1
    /\ UNCHANGED <<spec, rq, sj, lint>>

\* lines 256-259: one iteration of the loop over the folder's endpoints
EmitRequest(r) ==
    /\ gc[r].pc = "requests"
    /\ LET endpoints == endpoints_of(gc[r].tags, gc[r].all_tags[gc[r].ti])
           i == gc[r].ei - 1
       IN  /\ gc[r].ei <= Len(endpoints)
           /\ LET ep == endpoints[gc[r].ei]
                  req_sort == gc[r].sort_counter - i
                  req_yaml == generate_request_yaml(spec, ep.path, ep.method,
                                                    ep.op, req_sort)
              IN  IF IsRaise(req_yaml)
                  THEN gc' = [gc EXCEPT ![r].pc = "raised"]
                  ELSE gc' = [gc EXCEPT ![r].lines = Append(@, Frag(req_yaml)),
                                        ![r].ei = @ + 1]
    /\ now' = now + 1
    /\ UNCHANGED <<spec, rq, sj, lint>>

\* lines 261-266: after the folder's last request, its authentication
EndFolder(r) ==
    /\ gc[r].pc = "requests"
    /\ gc[r].ei > Len(endpoints_of(gc[r].tags, gc[r].all_tags[gc[r].ti]))
    /\ gc' = [gc EXCEPT ![r].lines =
                            IF gc[r].all_tags[gc[r].ti] \in gc[r].secured_tags
                            THEN @ \o folder_auth_lines ELSE @,
                        ![r].ti = @ + 1,
                        ![r].pc = "folders"]
    /\ now' = now + 1
    /\ UNCHANGED <<spec, rq, sj, lint>>

\* lines 268-306: cookie jar, environments, return
Finish(r) ==
    /\ gc[r].pc = "folders"
    /\ gc[r].ti > Len(gc[r].all_tags)
    /\ gc' = [gc EXCEPT ![r].lines = @ \o footer_lines, ![r].pc = "done"]
    /\ now' = now + 1
    /\ UNCHANGED <<spec, rq, sj, lint>>

Step(r) ==
    \/ Group(r)
    \/ SkipTag(r)
    \/ EmitFolder(r)
    \/ EmitRequest(r)
    \/ EndFolder(r)
    \/ Finish(r)

\* one run of generate_collection on any of the documents
Init ==
    /\ IsDoc(spec)
    /\ gc = [r \in Runs |-> IF r = 1 THEN StartRun ELSE IdleRun]
    /\ now = 0
    /\ rq = IdleRequest
    /\ sj = IdleSample
    /\ lint = IdleLint

Next == \E r \in Runs : Step(r)

Spec == Init /\ [][Next]_vars

\* two independent runs on one document, taking turns: run 1 steps at the
\* even times, run 2 at the odd times
InitPair ==
    /\ IsDoc(spec)
    /\ gc = [r \in Runs |-> StartRun]
    /\ now = 0
    /\ rq = IdleRequest
    /\ sj = IdleSample
    /\ lint = IdleLint

NextPair == \E r \in Runs : (now % 2) + 1 = r /\ Step(r)

SpecPair == InitPair /\ [][NextPair]_vars

(***************************************************************************)
(* generate_collection as one function of the document: the list "lines"   *)
(* at the return of line 306, or Raise(...) when a request raises.         *)
(***************************************************************************)
\* lines 256-259: the fragments of one folder's endpoints
folder_requests(sp, endpoints, sort_counter) ==
    [i \in 1..Len(endpoints) |->
        generate_request_yaml(sp, endpoints[i].path, endpoints[i].method,
                              endpoints[i].op, sort_counter - (i - 1))]

\* lines 241-266: the folders from the ti-th entry of all_tags on
RECURSIVE folders_from(_, _, _, _, _, _)
folders_from(sp, tags, secured_tags, all_tags, ti, sort_counter) ==
    IF ti > Len(all_tags) THEN <<>>
    ELSE IF ~has_tag(tags, all_tags[ti])
    THEN folders_from(sp, tags, secured_tags, all_tags, ti + 1, sort_counter)
    ELSE LET tag == all_tags[ti]
             reqs == folder_requests(sp, endpoints_of(tags, tag), sort_counter - 1)
             rest == folders_from(sp, tags, secured_tags, all_tags, ti + 1,
                                  sort_counter - 1)
             folder == folder_lines(tag, sort_counter)
         IN  IF IsRaise(folder) THEN folder
             ELSE IF FirstRaise(reqs) # None THEN FirstRaise(reqs)
             ELSE IF IsRaise(rest) THEN rest
             ELSE folder
                  \o [i \in 1..Len(reqs) |-> Frag(reqs[i])]
                  \o (IF tag \in secured_tags THEN folder_auth_lines ELSE <<>>)
                  \o rest

generate_collection(sp) ==
    LET tags == sort_tags(group_by_tag(<<>>, path_items(Get(sp, "paths", <<>>))))
        folders == folders_from(sp, tags, secured_tags_of(tags),
                                extend_all_tags(tag_order, tags), 1, 0)
    IN  IF IsRaise(folders) THEN folders
        ELSE header_lines(sp) \o folders \o footer_lines

(***************************************************************************)
(* generate_request_yaml called on its own, one block of the function per  *)
(* step: lines 115-141, 143-161, 163-171, 173-183, 185-195.                *)
(***************************************************************************)
MaxParams == 2

s_path_u == <<47, 117, 47, 123, 105, 100, 125>>             \* "/u/{id}"
s_id == <<105, 100>>                                        \* "id"
s_q == <<113>>                                              \* "q"
s_b == <<98>>                                               \* "b"
s_a_colon_b == <<97, 58, 98>>                               \* "a:b"
s_two_lines == <<97, 10, 98>>                               \* "a\nb"
s_text_xml == <<116, 101, 120, 116, 47, 120, 109, 108>>     \* "text/xml"
s_Patch == <<80, 97, 116, 99, 104>>                         \* "Patch"
s_A == <<65>>                                               \* "A"
s_7 == <<55>>                                               \* "7"

\* the definitions a body schema may refer to
RequestSpec == [definitions |-> (s_A :> [type |-> "integer"])]

BodySchemas ==
    {[type |-> "string"], "$ref" :> (s_defs \o s_A), [type |-> "string", enum |-> <<>>]}

ParamChoices ==
    {[in |-> "path", name |-> s_id],
     [in |-> "path", name |-> s_id, example |-> [t |-> "str", s |-> s_7]],
     [in |-> "path", name |-> s_id, example |-> [t |-> "int", n |-> 0]],
     [in |-> "query", name |-> s_q],
     [in |-> "query", name |-> s_a_colon_b, example |-> [t |-> "int", n |-> 25]],
     [in |-> "body", name |-> s_b]}
    \cup {[in |-> "body", name |-> s_b, schema |-> sc] : sc \in BodySchemas}

RequestMethods == {s_get, s_post, s_Patch}

RequestOps ==
    {[responses |-> <<>>] @@ pm @@ sc @@ sm @@ ds @@ cs :
        pm \in Optional("parameters", SeqsUpTo(ParamChoices, MaxParams) \ {<<>>}),
        sc \in Optional("security", {<<>>, NonEmptySecurity}),
        sm \in Optional("summary", {s_a_colon_b}),
        ds \in Optional("description", {s_a_colon_b, s_two_lines}),
        cs \in Optional("consumes", {<<>>, <<s_text_xml>>})}

\* the md5_id of line 117 may raise, and the call ends there
ReqHead ==
    /\ rq.pc = "start"
    /\ LET head == request_head(rq.path, rq.method, rq.op, rq.sort_key) IN
       IF IsRaise(head)
       THEN rq' = [rq EXCEPT !.pc = "raised"]
       ELSE rq' = [rq EXCEPT !.lines = head, !.pc = "body"]
    /\ UNCHANGED <<spec, gc, now, sj, lint>>

\* the sample of the body schema may raise, and the call ends there
ReqBody ==
    /\ rq.pc = "body"
    /\ LET body == request_body(spec, rq.method, rq.op) IN
       IF IsRaise(body)
       THEN rq' = [rq EXCEPT !.pc = "raised"]
       ELSE rq' = [rq EXCEPT !.lines = @ \o body, !.pc = "query"]
    /\ UNCHANGED <<spec, gc, now, sj, lint>>

ReqQuery ==
    /\ rq.pc = "query"
    /\ rq' = [rq EXCEPT !.lines = @ \o request_query(rq.op), !.pc = "auth"]
    /\ UNCHANGED <<spec, gc, now, sj, lint>>

ReqAuth ==
    /\ rq.pc = "auth"
    /\ rq' = [rq EXCEPT !.lines = @ \o request_auth(rq.method, rq.op),
                        !.pc = "settings"]
    /\ UNCHANGED <<spec, gc, now, sj, lint>>

ReqSettings ==
    /\ rq.pc = "settings"
    /\ rq' = [rq EXCEPT !.lines = @ \o request_settings, !.pc = "done"]
    /\ UNCHANGED <<spec, gc, now, sj, lint>>

InitRequest ==
    /\ spec = RequestSpec
    /\ gc = [r \in Runs |-> IdleRun]
    /\ now = 0
    /\ sj = IdleSample
    /\ lint = IdleLint
    /\ \E method \in RequestMethods : \E op \in RequestOps :
           rq = [pc |-> "start", path |-> s_path_u, method |-> method, op |-> op,
                 sort_key |-> 0, lines |-> <<>>]

NextRequest == ReqHead \/ ReqBody \/ ReqQuery \/ ReqAuth \/ ReqSettings

SpecRequest == InitRequest /\ [][NextRequest]_vars

(***************************************************************************)
(* generate_sample_json called on its own, as the interpreter runs it: a   *)
(* stack of activations, each with its schema and depth arguments and the  *)
(* place it waits at ("enter": not yet run; "ref", "items", "props": in    *)
(* the recursive call of line 42, 59 or 66).  sj.ret is the value the last *)
(* activation returned, sj.ret_depth the depth it ran at.                  *)
(***************************************************************************)
MaxProps == 2

s_f == <<102>>                                              \* "f"
s_g == <<103>>                                              \* "g"
s_B == <<66>>                                               \* "B"
s_C == <<67>>                                               \* "C"
s_x == <<120>>                                              \* "x"
s_external == <<35, 47, 65>>                                \* "#/A"

RefTo(name) == "$ref" :> (s_defs \o name)

\* schemas with no schema inside
LeafSchemas ==
    {[type |-> "string"], [type |-> "string", enum |-> <<>>],
     [type |-> "string", enum |-> <<s_x>>], [type |-> "integer"],
     [type |-> "number"], [type |-> "boolean"], [type |-> "null"], <<>>,
     [type |-> "array"], [type |-> "object", additionalProperties |-> <<>>],
     RefTo(s_A), RefTo(s_B), RefTo(s_C), "$ref" :> s_external}

ChildSchemas == {RefTo(s_A), RefTo(s_B), [type |-> "string", enum |-> <<>>]}

PropertyLists ==
    {ps \in SeqsUpTo([k : {s_f, s_g}, v : ChildSchemas], MaxProps) :
        ps # <<>> /\ \A i, j \in 1..Len(ps) : i # j => ps[i].k # ps[j].k}

Schemas ==
    LeafSchemas
    \cup {[type |-> "array", items |-> c] : c \in ChildSchemas}
    \cup {[type |-> "object", properties |-> ps] : ps \in PropertyLists}
    \cup {[properties |-> ps] : ps \in PropertyLists}
    \cup {[type |-> "null", properties |-> ps] : ps \in PropertyLists}

\* the definitions tables: A is any schema, B is absent or one of a few
DefinitionsTables ==
    {(s_A :> a) @@ b :
        a \in Schemas,
        b \in Optional(s_B, {<<>>, RefTo(s_A), [type |-> "array", items |-> RefTo(s_B)],
                             [properties |-> <<[k |-> s_f, v |-> RefTo(s_A)],
                                               [k |-> s_g, v |-> RefTo(s_B)]>>]})}

StartSchemas ==
    LeafSchemas \cup {[type |-> "array", items |-> RefTo(s_A)],
                      [properties |-> <<[k |-> s_f, v |-> RefTo(s_B)]>>]}

Frame(schema, depth) ==
    [schema |-> schema, depth |-> depth, at |-> "enter", i |-> 0, obj |-> <<>>]

Top == sj.stack[Len(sj.stack)]

Running == sj.pc = "run" /\ sj.stack # <<>>

\* the activation on top returns v to its caller
Return(v) ==
    sj' = [sj EXCEPT !.stack = SubSeq(@, 1, Len(@) - 1),
                     !.ret = v,
                     !.ret_depth = Top.depth,
                     !.pc = IF Len(sj.stack) = 1 THEN "done" ELSE "run"]

\* the activation on top waits at place "at" and calls itself on schema
Call(at, i, obj, schema) ==
    sj' = [sj EXCEPT !.stack =
                         Append([@ EXCEPT ![Len(@)] =
                                     [@ EXCEPT !.at = at, !.i = i, !.obj = obj]],
                                Frame(schema, Top.depth + 1)),
                     !.ret = None]

schema_type_of(schema) == Get(schema, "type", "object")

Entering == Running /\ Top.at = "enter"

\* lines 36-37
SampleCutoff ==
    /\ Entering
    /\ depth_exceeded(Top.depth)
    /\ Return(EmptyObj)
    /\ UNCHANGED <<spec, gc, now, rq, lint>>

\* lines 39-43
SampleRef ==
    /\ Entering
    /\ ~depth_exceeded(Top.depth)
    /\ "$ref" \in DOMAIN Top.schema
    /\ LET resolved == resolve_ref(spec, Top.schema["$ref"]) IN
       IF Truthy(resolved) THEN Call("ref", 0, <<>>, resolved) ELSE Return(EmptyObj)
    /\ UNCHANGED <<spec, gc, now, rq, lint>>

NoRef == Entering /\ ~depth_exceeded(Top.depth) /\ "$ref" \notin DOMAIN Top.schema

\* lines 47-50; schema["enum"][0] of an empty list raises IndexError, which
\* no activation catches
SampleString ==
    /\ NoRef
    /\ schema_type_of(Top.schema) = "string"
    /\ IF "enum" \in DOMAIN Top.schema
       THEN IF Len(Top.schema["enum"]) = 0
            THEN sj' = [sj EXCEPT !.stack = <<>>, !.ret = Raise("IndexError"),
                                  !.ret_depth = Top.depth, !.pc = "raised"]
            ELSE Return([t |-> "str", s |-> Top.schema["enum"][1]])
       ELSE Return([t |-> "str", s |-> s_string])
    /\ UNCHANGED <<spec, gc, now, rq, lint>>

\* lines 51-56
SampleNumberOrBoolean ==
    /\ NoRef
    /\ schema_type_of(Top.schema) \in {"integer", "number", "boolean"}
    /\ IF schema_type_of(Top.schema) = "boolean"
       THEN Return([t |-> "bool", b |-> FALSE])
       ELSE Return([t |-> "int", n |-> 0])
    /\ UNCHANGED <<spec, gc, now, rq, lint>>

\* lines 57-59
SampleArray ==
    /\ NoRef
    /\ schema_type_of(Top.schema) = "array"
    /\ Call("items", 0, <<>>, Get(Top.schema, "items", <<>>))
    /\ UNCHANGED <<spec, gc, now, rq, lint>>

IsObjectSchema(schema) ==
    /\ schema_type_of(schema) \notin {"string", "integer", "number", "boolean", "array"}
    /\ schema_type_of(schema) = "object" \/ "properties" \in DOMAIN schema

\* lines 60-67, up to the first property
SampleObject ==
    /\ NoRef
    /\ IsObjectSchema(Top.schema)
    /\ LET props == Get(Top.schema, "properties", <<>>) IN
       IF Len(props) = 0 THEN Return(EmptyObj)
       ELSE Call("props", 1, <<>>, props[1].v)
    /\ UNCHANGED <<spec, gc, now, rq, lint>>

\* line 69
SampleFallback ==
    /\ NoRef
    /\ schema_type_of(Top.schema) \notin {"string", "integer", "number", "boolean", "array"}
    /\ ~IsObjectSchema(Top.schema)
    /\ Return(EmptyObj)
    /\ UNCHANGED <<spec, gc, now, rq, lint>>

\* the recursive call of line 42, 59 or 66 has returned
SampleResume ==
    /\ Running
    /\ Top.at # "enter"
    /\ sj.ret # None
    /\ IF Top.at = "ref" THEN Return(sj.ret)
       ELSE IF Top.at = "items" THEN Return([t |-> "arr", items |-> <<sj.ret>>])
       ELSE LET props == Top.schema["properties"]
                obj == Append(Top.obj, [k |-> props[Top.i].k, v |-> sj.ret])
            IN  IF Top.i < Len(props)
                THEN Call("props", Top.i + 1, obj, props[Top.i + 1].v)
                ELSE Return([t |-> "obj", fields |-> obj])
    /\ UNCHANGED <<spec, gc, now, rq, lint>>

InitSample ==
    /\ gc = [r \in Runs |-> IdleRun]
    /\ now = 0
    /\ rq = IdleRequest
    /\ lint = IdleLint
    /\ \E defs \in DefinitionsTables : spec = [definitions |-> defs]
    /\ \E schema \in StartSchemas :
           sj = [pc |-> "run", stack |-> <<Frame(schema, 0)>>, ret |-> None,
                 ret_depth |-> 0, schema |-> schema]

NextSample ==
    \/ SampleCutoff
    \/ SampleRef
    \/ SampleString
    \/ SampleNumberOrBoolean
    \/ SampleArray
    \/ SampleObject
    \/ SampleFallback
    \/ SampleResume

\* the interpreter always takes the next step of a running call
SpecSample == InitSample /\ [][NextSample]_vars /\ WF_vars(NextSample)

(***************************************************************************)
(* scripts/lint-mermaid.py.  main submits one validate_diagram call per    *)
(* diagram to a pool of MAX_WORKERS threads, takes the results as they     *)
(* complete and returns the exit code.  What mmdc does with a diagram is   *)
(* the environment's choice:                                               *)
(*   "valid"          return code 0, the output file written;              *)
(*   "parse_error"    non-zero return code, stderr with a keyword line;    *)
(*   "other_error"    non-zero return code, stderr without a keyword;      *)
(*   "silent_failure" non-zero return code, stderr empty or blank;         *)
(*   "timeout"        no answer within 60 s;                               *)
(*   "uncaught_error" subprocess.run raises what lines 69-77 do not catch  *)
(*                    (PermissionError for an mmdc that is not executable, *)
(*                    UnicodeDecodeError for a stderr that is not UTF-8).  *)
(* lint.task is the dict of futures, in the order of submission:           *)
(* lint.task[i] is the call for diagram i, with the idx argument that      *)
(* enumerate gave it; it is "pending" in the pool's queue, "taken" once a  *)
(* thread has dequeued it, "run" after lines 47-50, "cleanup" at the       *)
(* finally block, "cleanup_out" between the two unlinks of lines 79-81,    *)
(* "unlinked" after them, "finished" when the future is done.  lint.pc is  *)
(* "load" while the module's top level runs.  lint.files is the content of *)
(* tmpdir, lint.tmpdir whether the directory exists; lint.touched records  *)
(* every read, write and unlink of a file with the call that did it.       *)
(* lint.raised names the exception that ended main, "" when there is none. *)
(***************************************************************************)
MaxDiagrams == 3

\* os.environ, as far as line 18 reads it: MERMAID_WORKERS not set, or set
\* to "1" or "2" (calls wait in the queue), "0" or "-1" (no pool can be
\* made), "abc" (not a number)
Environments ==
    {<<>>, [MERMAID_WORKERS |-> <<49>>], [MERMAID_WORKERS |-> <<50>>],
     [MERMAID_WORKERS |-> <<48>>], [MERMAID_WORKERS |-> <<45, 49>>],
     [MERMAID_WORKERS |-> <<97, 98, 99>>]}

\* the code point of the zero of every run of decimal digits int() reads
DigitZeros ==
    {48, 1632, 1776, 1984, 2406, 2534, 2662, 2790, 2918, 3046, 3174, 3302,
     3430, 3558, 3664, 3792, 3872, 4160, 4240, 6112, 6160, 6470, 6608,
     6784, 6800, 6992, 7088, 7232, 7248, 42528, 43216, 43264, 43472, 43504,
     43600, 44016, 65296, 66720, 68912, 69734, 69872, 69942, 70096, 70384,
     70736, 70864, 71248, 71360, 71472, 71904, 72016, 72784, 73040, 73120,
     92768, 92864, 93008, 120782, 120792, 120802, 120812, 120822, 123200,
     123632, 125264, 130032}

\* int(s) of a str: white space around, one sign, decimal digits with single
\* underscores between them, at most 4300 digits
\* (sys.int_info.default_max_str_digits); anything else raises ValueError
PyInt(s) ==
    LET solid == {i \in 1..Len(s) : ~IsSpace(s[i]) \/ s[i] \in 28..31}
        t == IF solid = {} THEN <<>>
             ELSE SubSeq(s, CHOOSE i \in solid : \A j \in solid : i <= j,
                            CHOOSE i \in solid : \A j \in solid : i >= j)
        body == IF t # <<>> /\ t[1] \in {43, 45} THEN Tail(t) ELSE t
        digit(c) == \E z \in DigitZeros : c \in z..(z + 9)
        value(c) == c - (CHOOSE z \in DigitZeros : c \in z..(z + 9))
        digits == SelectSeq(body, LAMBDA c : c # 95)
        nonzero == {k \in 1..Len(digits) : value(digits[k]) # 0}
        significant ==
            IF nonzero = {} THEN <<>>
            ELSE SubSeq(digits, CHOOSE k \in nonzero : \A j \in nonzero : k <= j,
                                Len(digits))
        RECURSIVE magnitude(_)
        magnitude(k) ==
            IF k = 0 THEN 0 ELSE 10 * magnitude(k - 1) + value(significant[k])
    IN  IF /\ body # <<>>
           /\ digit(body[1]) /\ digit(body[Len(body)])
           /\ \A i \in 1..Len(body) :
                  IF body[i] = 95 THEN body[i + 1] # 95 ELSE digit(body[i])
           /\ Len(digits) <= 4300
        THEN [t |-> "int",
              n |-> IF t[1] = 45 THEN 0 - magnitude(Len(significant))
                    ELSE magnitude(Len(significant))]
        ELSE Raise("ValueError")

\* line 18: int(os.environ.get("MERMAID_WORKERS", "4"))
MAX_WORKERS == PyInt(Get(lint.environ, "MERMAID_WORKERS", <<52>>))

MmdcOutcomes ==
    {"valid", "parse_error", "other_error", "silent_failure", "timeout",
     "uncaught_error"}

s_a_md == <<97, 46, 109, 100>>                              \* "a.md"
s_b_md == <<98, 46, 109, 100>>                              \* "b.md"

\* what find_diagrams returns: distinct (path, lineno), in walk order
DiagramPlaces ==
    <<[path |-> s_a_md, lineno |-> 3], [path |-> s_a_md, lineno |-> 9],
      [path |-> s_b_md, lineno |-> 3]>>

DiagramLists ==
    UNION {{[i \in 1..n |-> [path |-> DiagramPlaces[i].path,
                             lineno |-> DiagramPlaces[i].lineno,
                             mmdc |-> o[i]]] :
               o \in [1..n -> MmdcOutcomes]} : n \in 0..MaxDiagrams}

\* a Python str held as a result
Str(text) == [str |-> text]

\* the value of "if err:" at line 103
err_given(err) == err # None /\ err # Str("")

\* lines 58-68 and 76-77: what validate_diagram returns for mmdc's answer
validate_result(outcome) ==
    IF outcome = "valid" THEN None
    ELSE IF outcome = "parse_error" THEN Str("keyword lines of stderr")
    ELSE IF outcome = "other_error" THEN Str("stderr[:300]")
    ELSE IF outcome = "silent_failure" THEN Str("")
    ELSE IF outcome = "timeout" THEN Str("Timed out after 60s")
    ELSE Raise("Exception")

\* os.path.join(tmpdir, f"{idx}.mmd") and f"{idx}.svg"
infile(idx) == [idx |-> idx, ext |-> "mmd"]

outfile(idx) == [idx |-> idx, ext |-> "svg"]

NDiagrams == Len(lint.diagrams)

\* the calls that hold a thread of the pool
Active ==
    {i \in DOMAIN lint.task :
        lint.task[i].st \in {"taken", "run", "cleanup", "cleanup_out", "unlinked"}}

AllFinished == \A i \in DOMAIN lint.task : lint.task[i].st = "finished"

\* lines 16-25, the module's top level: a MERMAID_WORKERS that int() cannot
\* read ends the interpreter with a traceback (exit status 1) before main
ModuleLoad ==
    /\ lint.pc = "load"
    /\ lint' = IF IsRaise(MAX_WORKERS)
               THEN [lint EXCEPT !.pc = "returned", !.raised = "ValueError",
                                 !.exit = 1]
               ELSE [lint EXCEPT !.pc = "start"]
    /\ UNCHANGED <<spec, gc, now, rq, sj>>

\* lines 85-89: no diagram, return 0
MainEmpty ==
    /\ lint.pc = "start"
    /\ lint.diagrams = <<>>
    /\ lint' = [lint EXCEPT !.pc = "returned", !.exit = 0]
    /\ UNCHANGED <<spec, gc, now, rq, sj>>

\* lines 91-95: tmpdir, errors, the pool; ThreadPoolExecutor raises
\* ValueError for max_workers <= 0, which ends the interpreter with a
\* traceback (exit status 1) and leaves the directory of line 91
MainOpenPool ==
    /\ lint.pc = "start"
    /\ lint.diagrams # <<>>
    /\ lint' = IF MAX_WORKERS.n <= 0
               THEN [lint EXCEPT !.pc = "returned", !.tmpdir = TRUE,
                                 !.raised = "ValueError", !.exit = 1]
               ELSE [lint EXCEPT !.pc = "submit", !.tmpdir = TRUE]
    /\ UNCHANGED <<spec, gc, now, rq, sj>>

\* lines 96-99: one pool.submit of the comprehension; enumerate numbers the
\* diagrams from 0 and the number is the call's idx argument
MainSubmit ==
    /\ lint.pc = "submit"
    /\ lint' = [lint EXCEPT
            !.task = Append(@, [st |-> "pending", result |-> None,
                                idx |-> Len(lint.task)]),
            !.pc = IF Len(lint.task) + 1 = NDiagrams
                   THEN "collect" ELSE "submit"]
    /\ UNCHANGED <<spec, gc, now, rq, sj>>

\* a free thread of the pool takes the oldest queued call
WorkerTake(i) ==
    /\ lint.pc \in {"submit", "collect", "shutdown"}
    /\ lint.task[i].st = "pending"
    /\ \A j \in 1..(i - 1) : lint.task[j].st # "pending"
    /\ Cardinality(Active) < MAX_WORKERS.n
    /\ lint' = [lint EXCEPT !.task[i].st = "taken"]
    /\ UNCHANGED <<spec, gc, now, rq, sj>>

\* lines 47-50: the thread writes the input file its idx names
WorkerStart(i) ==
    /\ lint.task[i].st = "taken"
    /\ LET f == infile(lint.task[i].idx) IN
       lint' = [lint EXCEPT
            !.task[i].st = "run",
            !.files = @ \cup {f},
            !.touched = @ \cup {[by |-> i, op |-> "write", file |-> f]}]
    /\ UNCHANGED <<spec, gc, now, rq, sj>>

\* lines 52-57, inside subprocess.run: the mmdc process of a valid diagram
\* reads the input file and writes the output file of its command line,
\* while the thread waits for it
OutputWritten(i) ==
    /\ lint.task[i].st = "run"
    /\ lint.mmdc_found
    /\ lint.diagrams[i].mmdc = "valid"
    /\ infile(lint.task[i].idx) \in lint.files
    /\ outfile(lint.task[i].idx) \notin lint.files
    /\ lint' = [lint EXCEPT
            !.files = @ \cup {outfile(lint.task[i].idx)},
            !.touched = @ \cup
                {[by |-> i, op |-> "read", file |-> infile(lint.task[i].idx)],
                 [by |-> i, op |-> "write", file |-> outfile(lint.task[i].idx)]}]
    /\ UNCHANGED <<spec, gc, now, rq, sj>>

\* lines 51-77: subprocess.run ends, and what becomes of its answer
WorkerRun(i) ==
    /\ lint.task[i].st = "run"
    /\ lint.mmdc_found /\ lint.diagrams[i].mmdc = "valid"
           => outfile(lint.task[i].idx) \in lint.files
    /\ lint' = [lint EXCEPT
            !.task[i].st = "cleanup",
            !.task[i].result = IF lint.mmdc_found
                               THEN validate_result(lint.diagrams[i].mmdc)
                               ELSE Raise("SystemExit")]
    /\ UNCHANGED <<spec, gc, now, rq, sj>>

\* lines 79-81, first turn of the loop: the input file is unlinked if it
\* exists
UnlinkFirst(i) ==
    /\ lint.task[i].st = "cleanup"
    /\ LET f == infile(lint.task[i].idx) IN
       lint' = [lint EXCEPT
            !.task[i].st = "cleanup_out",
            !.files = @ \ {f},
            !.touched = IF f \in lint.files
                        THEN @ \cup {[by |-> i, op |-> "unlink", file |-> f]}
                        ELSE @]
    /\ UNCHANGED <<spec, gc, now, rq, sj>>

\* lines 79-81, second turn of the loop: the output file is unlinked if it
\* exists
WorkerCleanup(i) ==
    /\ lint.task[i].st = "cleanup_out"
    /\ LET f == outfile(lint.task[i].idx) IN
       lint' = [lint EXCEPT
            !.task[i].st = "unlinked",
            !.files = @ \ {f},
            !.touched = IF f \in lint.files
                        THEN @ \cup {[by |-> i, op |-> "unlink", file |-> f]}
                        ELSE @]
    /\ UNCHANGED <<spec, gc, now, rq, sj>>

\* validate_diagram has returned or raised: the pool's thread sets the
\* future's result or exception, the future is done and the thread is free
FutureDone(i) ==
    /\ lint.task[i].st = "unlinked"
    /\ lint' = [lint EXCEPT !.task[i].st = "finished"]
    /\ UNCHANGED <<spec, gc, now, rq, sj>>

\* lines 100-104: as_completed yields a done future; result() re-raises in
\* main the SystemExit of line 75 or the exception of line 52
MainCollect(i) ==
    /\ lint.pc = "collect"
    /\ lint.task[i].st = "finished"
    /\ i \notin lint.collected
    /\ LET err == lint.task[i].result IN
       IF IsRaise(err)
       THEN lint' = [lint EXCEPT !.pc = "shutdown", !.raised = err.e]
       ELSE lint' = [lint EXCEPT
                !.collected = @ \cup {i},
                !.errors = IF err_given(err)
                           THEN Append(@, [path |-> lint.diagrams[i].path,
                                           lineno |-> lint.diagrams[i].lineno,
                                           err |-> err])
                           ELSE @]
    /\ UNCHANGED <<spec, gc, now, rq, sj>>

\* line 100: every future has been yielded, the loop ends
MainLoopEnd ==
    /\ lint.pc = "collect"
    /\ lint.collected = 1..NDiagrams
    /\ lint' = [lint EXCEPT !.pc = "shutdown"]
    /\ UNCHANGED <<spec, gc, now, rq, sj>>

\* line 95, leaving the with block: shutdown(wait=True); a SystemExit then
\* goes on to line 123 (exit status 2), any other exception ends the
\* interpreter with a traceback (exit status 1)
MainPoolExit ==
    /\ lint.pc = "shutdown"
    /\ AllFinished
    /\ lint' = IF lint.raised = "SystemExit"
               THEN [lint EXCEPT !.pc = "returned", !.exit = 2]
               ELSE IF lint.raised = "Exception"
               THEN [lint EXCEPT !.pc = "returned", !.exit = 1]
               ELSE [lint EXCEPT !.pc = "rmdir"]
    /\ UNCHANGED <<spec, gc, now, rq, sj>>

\* lines 106-119
MainReturn ==
    /\ lint.pc = "rmdir"
    /\ lint' = [lint EXCEPT !.pc = "returned",
                            !.tmpdir = lint.files # {},
                            !.exit = IF lint.errors # <<>> THEN 1 ELSE 0]
    /\ UNCHANGED <<spec, gc, now, rq, sj>>

InitLint ==
    /\ spec = <<>>
    /\ gc = [r \in Runs |-> IdleRun]
    /\ now = 0
    /\ rq = IdleRequest
    /\ sj = IdleSample
    /\ \E diagrams \in DiagramLists : \E found \in BOOLEAN :
       \E environ \in Environments :
           lint = [pc |-> "load", diagrams |-> diagrams, mmdc_found |-> found,
                   environ |-> environ, task |-> <<>>,
                   files |-> {}, touched |-> {}, tmpdir |-> FALSE,
                   collected |-> {}, errors |-> <<>>, raised |-> "",
                   exit |-> None]

NextLint ==
    \/ ModuleLoad
    \/ MainEmpty
    \/ MainOpenPool
    \/ MainSubmit
    \/ \E i \in DOMAIN lint.task : WorkerTake(i)
    \/ \E i \in DOMAIN lint.task : WorkerStart(i)
    \/ \E i \in DOMAIN lint.task : OutputWritten(i)
    \/ \E i \in DOMAIN lint.task : WorkerRun(i)
    \/ \E i \in DOMAIN lint.task : UnlinkFirst(i)
    \/ \E i \in DOMAIN lint.task : WorkerCleanup(i)
    \/ \E i \in DOMAIN lint.task : FutureDone(i)
    \/ \E i \in DOMAIN lint.task : MainCollect(i)
    \/ MainLoopEnd
    \/ MainPoolExit
    \/ MainReturn

SpecLint == InitLint /\ [][NextLint]_vars

(***************************************************************************)
(* Reading the emitted document back.                                      *)
(***************************************************************************)
line_key(l) == Get(l, "k", "")

is_frag(l) == "frag" \in DOMAIN l

is_folder_line(l) == line_key(l) = "  - name: {}"

\* the sortKey a request fragment carries
frag_sort_key(l) ==
    l.frag[CHOOSE i \in 1..Len(l.frag) :
               line_key(l.frag[i]) = "          sortKey: {}"].n

\* the seed of the id a request fragment carries
frag_seed(l) ==
    l.frag[CHOOSE i \in 1..Len(l.frag) :
               line_key(l.frag[i]) = "          id: {}"].id.md5

carries_sort_key(l) == is_frag(l) \/ line_key(l) = "      sortKey: {}"

\* the sortKeys of the folders and request fragments, in emission order
emitted_sort_keys(lines) ==
    LET items == SelectSeq(lines, carries_sort_key) IN
    [i \in 1..Len(items) |->
        IF is_frag(items[i]) THEN frag_sort_key(items[i]) ELSE items[i].n]

\* the names of the folders, in emission order
folder_names(lines) ==
    LET items == SelectSeq(lines, is_folder_line) IN
    [i \in 1..Len(items) |-> items[i].v]

folder_starts(lines) == {i \in 1..Len(lines) : is_folder_line(lines[i])}

\* the last line of the folder that starts at line s
folder_end(lines, s) ==
    LET stops == {i \in (s + 1)..Len(lines) :
                     is_folder_line(lines[i]) \/ line_key(lines[i]) = "cookieJar:"}
    IN  IF stops = {} THEN Len(lines)
        ELSE (CHOOSE i \in stops : \A j \in stops : i <= j) - 1

\* the name of the folder that line i lies in
folder_at(lines, i) ==
    lines[CHOOSE s \in folder_starts(lines) :
              s < i /\ \A u \in folder_starts(lines) : u < i => u <= s].v

(***************************************************************************)
(* The input document as the claims speak of it.                           *)
(***************************************************************************)
\* a valid operation: an object with a "responses" key
ValidOperation(op) == "pylist" \notin DOMAIN op /\ "responses" \in DOMAIN op

\* the tags an operation is filed under: its tags, 'other' when it has no key
FiledUnder(op) == IF "tags" \in DOMAIN op THEN op["tags"] ELSE <<s_other>>

Untagged(op) == "tags" \notin DOMAIN op \/ op["tags"] = <<>>

Secured(op) == "security" \in DOMAIN op /\ op["security"] # <<>>

Operations == path_items(Get(spec, "paths", <<>>))

\* the tags of the valid operations as met scanning paths and methods
RECURSIVE scanned_tags(_)
scanned_tags(eps) ==
    IF eps = <<>> THEN <<>>
    ELSE (IF ValidOperation(Head(eps).op) THEN FiledUnder(Head(eps).op) ELSE <<>>)
         \o scanned_tags(Tail(eps))

PreferenceList == <<s_meta, s_chain, s_game>>

index_of(s, x) == CHOOSE i \in 1..Len(s) : s[i] = x /\ \A j \in 1..(i - 1) : s[j] # x

\* folder a comes before folder b
folder_before(a, b, seen) ==
    IF a \in Range(PreferenceList)
    THEN b \notin Range(PreferenceList)
         \/ index_of(PreferenceList, a) < index_of(PreferenceList, b)
    ELSE b \notin Range(PreferenceList) /\ index_of(seen, a) < index_of(seen, b)

Started(r) == gc[r].pc \notin {"idle", "start"}

Done(r) == gc[r].pc = "done"

(***************************************************************************)
(* C1: in generate_collection the sortKey of every emitted folder and      *)
(* request fragment is strictly smaller than the sortKey of every item     *)
(* emitted before it.                                                      *)
(***************************************************************************)
C1_SortKeysStrictlyDecreasing ==
    \A r \in Runs :
        LET keys == emitted_sort_keys(gc[r].lines) IN
        \A i, j \in 1..Len(keys) : i < j => keys[j] < keys[i]

(***************************************************************************)
(* C5: the folders are the tags of the preference list [meta, chain, game] *)
(* that occur on a valid operation, in that order, then every other tag of *)
(* a valid operation in first-encounter order; one folder per tag and none *)
(* for a tag that is not present.                                          *)
(***************************************************************************)
C5_FolderOrder ==
    \A r \in Runs :
        Started(r) =>
            LET names == folder_names(gc[r].lines)
                seen == scanned_tags(Operations)
            IN  /\ Distinct(names)
                /\ Range(names) \subseteq Range(seen)
                /\ \A i, j \in 1..Len(names) :
                       i < j => folder_before(names[i], names[j], seen)
                /\ Done(r) => Range(names) = Range(seen)

\* a preferred tag met last comes first; 'other' and zeta keep scan order
C5_Witness ==
    /\ Done(1)
    /\ scanned_tags(Operations) = <<s_other, s_zeta, s_game>>
    /\ folder_names(gc[1].lines) = <<s_game, s_other, s_zeta>>

(***************************************************************************)
(* C6: every valid operation without a tag, its tags key absent or its tag *)
(* list empty, is emitted as a request in the folder 'other'.              *)
(***************************************************************************)
request_in_folder(lines, ep, tag) ==
    \E i \in 1..Len(lines) :
        /\ is_frag(lines[i])
        /\ frag_seed(lines[i]) = ep.method \o <<58>> \o ep.path
        /\ folder_at(lines, i) = tag

C6_UntaggedGoToOther ==
    \A r \in Runs :
        Done(r) =>
            \A e \in 1..Len(Operations) :
                ValidOperation(Operations[e].op) /\ Untagged(Operations[e].op)
                    => request_in_folder(gc[r].lines, Operations[e], s_other)

(***************************************************************************)
(* C7: a folder carries the bearer authentication section exactly when an  *)
(* operation grouped into it has non-empty security; the section appears   *)
(* once, after all of the folder's requests.                               *)
(***************************************************************************)
auth_starts(lines, s) ==
    {i \in s..folder_end(lines, s) : line_key(lines[i]) = "    authentication:"}

has_secured_operation(tag) ==
    \E e \in 1..Len(Operations) :
        /\ ValidOperation(Operations[e].op)
        /\ tag \in Range(FiledUnder(Operations[e].op))
        /\ Secured(Operations[e].op)

has_unsecured_operation(tag) ==
    \E e \in 1..Len(Operations) :
        /\ ValidOperation(Operations[e].op)
        /\ tag \in Range(FiledUnder(Operations[e].op))
        /\ ~Secured(Operations[e].op)

C7_FolderAuthentication ==
    \A r \in Runs :
        Done(r) =>
            LET lines == gc[r].lines IN
            \A s \in folder_starts(lines) :
                LET auth == auth_starts(lines, s) IN
                /\ Cardinality(auth) = IF has_secured_operation(lines[s].v) THEN 1 ELSE 0
                /\ \A i \in auth :
                       /\ i + 3 = folder_end(lines, s)
                       /\ SubSeq(lines, i, i + 3) =
                              << Lit("    authentication:"), Lit("      type: bearer"),
                                 Lit("      token: >-"), Lit("        {{ _.api_key }}") >>

\* a folder of one secured and one unsecured operation carries the section
C7_Witness ==
    /\ Done(1)
    /\ \E s \in folder_starts(gc[1].lines) :
           /\ has_secured_operation(gc[1].lines[s].v)
           /\ has_unsecured_operation(gc[1].lines[s].v)
           /\ auth_starts(gc[1].lines, s) # {}

(***************************************************************************)
(* C10: generate_collection is a function of its input document alone.     *)
(* Two independent runs on one document, stepped side by side at different *)
(* times, emit the same lines; every id is <prefix>_<digest of seed> for a *)
(* seed the document fixes; every sortKey is fixed by the item's place in  *)
(* the emission order (the folder's ordinal, the request's index in it).   *)
(***************************************************************************)
is_prefix(s, u) == Len(s) <= Len(u) /\ SubSeq(u, 1, Len(s)) = s

\* the ids of the emitted lines, those of the request fragments included
line_ids(lines) ==
    {lines[i].id : i \in {j \in 1..Len(lines) : "id" \in DOMAIN lines[j]}}

emitted_ids(lines) ==
    line_ids(lines)
    \cup UNION {line_ids(lines[i].frag) : i \in {j \in 1..Len(lines) : is_frag(lines[j])}}

\* the ids the document fixes
document_ids ==
    {[prefix |-> "wrk", md5 |-> s_wrk], [prefix |-> "jar", md5 |-> s_jar],
     [prefix |-> "env", md5 |-> s_base_env], [prefix |-> "env", md5 |-> s_still_env]}
    \cup {[prefix |-> "fld", md5 |-> s_folder \o tg] :
             tg \in Range(scanned_tags(Operations))}
    \cup {[prefix |-> "req", md5 |-> Operations[e].method \o <<58>> \o Operations[e].path] :
             e \in {x \in 1..Len(Operations) : ValidOperation(Operations[x].op)}}

\* the sortKey of the item at line i: folders count from 0 down, a request
\* lies its index in the folder below the counter left by its folder
placed_sort_key(lines, i) ==
    LET folders_before == Cardinality({s \in folder_starts(lines) : s < i})
        last_start == CHOOSE s \in folder_starts(lines) :
                          s < i /\ \A u \in folder_starts(lines) : u < i => u <= s
        index == Cardinality({j \in (last_start + 1)..(i - 1) : is_frag(lines[j])})
    IN  IF is_frag(lines[i]) THEN 0 - folders_before - index
        ELSE 0 - (folders_before - 1)

C10_Deterministic ==
    /\ is_prefix(gc[1].lines, gc[2].lines) \/ is_prefix(gc[2].lines, gc[1].lines)
    /\ Done(1) /\ Done(2) => gc[1].lines = gc[2].lines
    /\ \A r \in Runs :
           LET lines == gc[r].lines IN
           Done(r) =>
           /\ emitted_ids(lines) \subseteq document_ids
           /\ \A i \in 1..Len(lines) :
                  /\ is_frag(lines[i]) => frag_sort_key(lines[i]) = placed_sort_key(lines, i)
                  /\ line_key(lines[i]) = "      sortKey: {}"
                         => lines[i].n = placed_sort_key(lines, i)

\* both runs have returned a document of two folders with a request each
C10_Witness ==
    /\ Done(1) /\ Done(2)
    /\ gc[1].lines = gc[2].lines
    /\ Cardinality(folder_starts(gc[1].lines)) = 2
    /\ \E i \in 1..Len(gc[2].lines) : is_frag(gc[2].lines[i])

(***************************************************************************)
(* Reading a request fragment back.                                        *)
(***************************************************************************)
lines_with(lines, key) == {i \in 1..Len(lines) : line_key(lines[i]) = key}

\* the keys of a request entry, the level at which a list such as headers opens
SectionKeys ==
    {"        name: {}", "        meta:", "        method: {}", "        body:",
     "        headers:", "        parameters:", "        settings:"}

\* the key under which line i lies
section_at(lines, i) ==
    LET before == {j \in 1..(i - 1) : line_key(lines[j]) \in SectionKeys} IN
    IF before = {} THEN ""
    ELSE line_key(lines[CHOOSE j \in before : \A u \in before : u <= j])

RequestDone == rq.pc = "done"

RequestEnded == rq.pc \in {"done", "raised"}

\* what the call emitted: nothing when it raised
emitted_fragment == IF rq.pc = "done" THEN rq.lines ELSE <<>>

request_params == Get(rq.op, "parameters", <<>>)

(***************************************************************************)
(* C2: the fragment of a secured operation has exactly one headers list,   *)
(* holding exactly one Authorization entry with the value {{ _.api_key }}, *)
(* after the Content-Type entry when there is one; the entry lies under no *)
(* other key and never without a headers key.                              *)
(***************************************************************************)
C2_OneAuthorizationHeader ==
    RequestDone /\ Secured(rq.op) =>
        LET lines == rq.lines
            auth == lines_with(lines, "          - name: Authorization")
        IN  /\ Cardinality(lines_with(lines, "        headers:")) = 1
            /\ Cardinality(auth) = 1
            /\ \A i \in auth :
                   /\ section_at(lines, i) = "        headers:"
                   /\ SubSeq(lines, i + 1, i + 3) =
                          << Lit("            disabled: false"),
                             Lit("            value: >-"),
                             Lit("              {{ _.api_key }}") >>
                   /\ \A c \in lines_with(lines, "          - name: Content-Type") :
                          c < i /\ section_at(lines, c) = "        headers:"

(***************************************************************************)
(* C8: a body section, and with it a Content-Type header entry, is emitted *)
(* exactly when the method is POST, PUT or PATCH in any letter case and    *)
(* the parameter list holds a body-kind parameter that has a schema.       *)
(***************************************************************************)
has_body_parameter_with_schema ==
    \E i \in 1..Len(request_params) :
        /\ Get(request_params[i], "in", "") = "body"
        /\ "schema" \in DOMAIN request_params[i]

C8_BodyIffMethodAndSchema ==
    RequestEnded =>
        LET body == lines_with(emitted_fragment, "        body:") # {}
            content_type ==
                lines_with(emitted_fragment, "          - name: Content-Type") # {}
        IN  /\ body <=> (Upper(rq.method) \in {s_POST, s_PUT, s_PATCH}
                         /\ has_body_parameter_with_schema)
            /\ content_type <=> body

(***************************************************************************)
(* C9: every string copied from the document into the fragment (summary,   *)
(* description, query parameter name, MIME type) is double-quoted with     *)
(* backslashes and double quotes escaped when it holds one of              *)
(* : { } [ ] & * ? | > ! % @ ` # , or starts with "- ", and is unquoted    *)
(* otherwise.                                                              *)
(***************************************************************************)
SignificantChars == {58, 123, 125, 91, 93, 38, 42, 63, 124, 62, 33, 37, 64, 96, 35, 44}

must_be_quoted(s) ==
    \/ \E i \in 1..Len(s) : s[i] \in SignificantChars
    \/ Len(s) >= 2 /\ s[1] = 45 /\ s[2] = 32

RECURSIVE backslash_escaped(_)
backslash_escaped(s) ==
    IF s = <<>> THEN <<>>
    ELSE (IF s[1] \in {34, 92} THEN <<92, s[1]>> ELSE <<s[1]>>)
         \o backslash_escaped(Tail(s))

as_yaml_string(s) ==
    IF must_be_quoted(s) THEN <<34>> \o backslash_escaped(s) \o <<34>> ELSE s

C9_CopiedStringsQuoted ==
    RequestDone =>
        LET lines == rq.lines
            query == SelectSeq(request_params, LAMBDA p : Get(p, "in", "") = "query")
            names == SelectSeq(lines, LAMBDA l :
                         line_key(l) = "          - name: {}")
        IN  /\ "summary" \in DOMAIN rq.op =>
                   \A i \in lines_with(lines, "        name: {}") :
                       lines[i].v = as_yaml_string(rq.op["summary"])
            /\ "description" \in DOMAIN rq.op /\ 10 \notin Range(rq.op["description"]) =>
                   \A i \in lines_with(lines, "          description: {}") :
                       lines[i].v = as_yaml_string(rq.op["description"])
            /\ Len(names) = Len(query)
            /\ \A i \in 1..Len(names) : names[i].v = as_yaml_string(query[i]["name"])
            /\ \A i \in lines_with(lines, "          mimeType: {}") :
                   lines[i].v = as_yaml_string(Get(rq.op, "consumes", <<s_app_json>>)[1])

(***************************************************************************)
(* The stack machine and the operator are the same function.               *)
(***************************************************************************)
SampleAgrees ==
    sj.pc \in {"done", "raised"} => sj.ret = generate_sample_json(spec, sj.schema, 0)

SampleEnded == sj.pc \in {"done", "raised"}

(***************************************************************************)
(* C3: generate_sample_json is total: for every schema and definitions     *)
(* table, malformed ones included, the call returns a value and no error   *)
(* propagates out of it.                                                   *)
(***************************************************************************)
C3_SampleTotal == sj.pc # "raised"

(***************************************************************************)
(* C4: generate_sample_json started at depth 0 terminates, also on cyclic  *)
(* definitions: each recursive call runs one deeper than its caller, no    *)
(* call runs deeper than 5, and a call deeper than 4 returns the empty     *)
(* object.                                                                 *)
(***************************************************************************)
DepthsBounded ==
    /\ \A k \in 1..Len(sj.stack) : sj.stack[k].depth = k - 1 /\ sj.stack[k].depth <= 5
    /\ sj.pc # "idle" /\ sj.ret # None /\ sj.ret_depth > 4 => sj.ret = EmptyObj

C4_DepthBoundedTermination == []DepthsBounded /\ <>SampleEnded

\* a cyclic definition is followed down to depth 5 and cut off there
C4_Witness ==
    /\ sj.pc = "run"
    /\ sj.ret = EmptyObj
    /\ sj.ret_depth = 5
    /\ Len(sj.stack) = 5
    /\ "$ref" \in DOMAIN Top.schema

(***************************************************************************)
(* C13: the request fragments of one document have pairwise distinct ids:  *)
(* every valid operation is emitted as one request fragment in one folder, *)
(* also when it declares several tags.                                     *)
(***************************************************************************)
\* the id a request fragment carries
frag_id(l) ==
    l.frag[CHOOSE i \in 1..Len(l.frag) :
               line_key(l.frag[i]) = "          id: {}"].id

fragments_of(lines, ep) ==
    {i \in 1..Len(lines) :
        is_frag(lines[i]) /\ frag_seed(lines[i]) = ep.method \o <<58>> \o ep.path}

C13_RequestIdsDistinct ==
    \A r \in Runs :
        LET frags == SelectSeq(gc[r].lines, is_frag) IN
        /\ \A i, j \in 1..Len(frags) : i # j => frag_id(frags[i]) # frag_id(frags[j])
        /\ \A e \in 1..Len(Operations) :
               ValidOperation(Operations[e].op)
                   => Cardinality(fragments_of(gc[r].lines, Operations[e])) <= 1

(***************************************************************************)
(* C12: in the request's URL every path-kind parameter with an example,    *)
(* 0 and false included, has its {name} segment replaced by the example    *)
(* rendered literally, every path-kind parameter without one by the        *)
(* placeholder {{ _.name }}; query- and body-kind parameters leave the     *)
(* path alone, and the URL starts with {{ _.base_url }}.                   *)
(***************************************************************************)
has_example(param) == "example" \in DOMAIN param

placeholder(name) == <<123, 123, 32, 95, 46>> \o name \o <<32, 125, 125>>

RECURSIVE substituted_path(_, _)
substituted_path(path, params) ==
    IF params = <<>> THEN path
    ELSE LET p == Head(params)
             segment == <<123>> \o p["name"] \o <<125>>
         IN  substituted_path(
                 IF p["in"] # "path" THEN path
                 ELSE IF has_example(p) THEN Replace(path, segment, PyStr(p["example"]))
                 ELSE Replace(path, segment, placeholder(p["name"])),
                 Tail(params))

url_lines == lines_with(rq.lines, "            {{ _.base_url }}{}")

C12_PathParametersSubstituted ==
    rq.pc \notin {"idle", "start"} =>
        /\ Cardinality(url_lines) = 1
        /\ \A i \in url_lines :
               rq.lines[i].v = substituted_path(rq.path, request_params)

(***************************************************************************)
(* The steps of a run and the function agree.                              *)
(***************************************************************************)
CollectionAgrees == \A r \in Runs : Done(r) => gc[r].lines = generate_collection(spec)

(***************************************************************************)
(* C11: a method entry that is not an object, or an operation without a    *)
(* responses key, is left out silently: no request is emitted for it, no   *)
(* folder exists or carries authentication because of it, the output is    *)
(* the output for the document without it (same order, same sort keys),    *)
(* and generate_collection completes and returns a document.               *)
(* Every step of a run advances the clock, so a run that can always step   *)
(* and whose clock is bounded reaches its return.                          *)
(***************************************************************************)
keeps_entry(m) == ValidOperation(m.v)

\* the document with the excluded entries taken out of every path
without_excluded(sp) ==
    [sp EXCEPT !.paths =
        [p \in 1..Len(sp.paths) |->
            [k |-> sp.paths[p].k, v |-> SelectSeq(sp.paths[p].v, keeps_entry)]]]

has_valid_operation(tag) ==
    \E e \in 1..Len(Operations) :
        /\ ValidOperation(Operations[e].op)
        /\ tag \in Range(FiledUnder(Operations[e].op))

ExcludedLeaveNoTrace ==
    \A r \in Runs :
        /\ gc[r].pc # "raised"
        /\ \A e \in 1..Len(Operations) :
               ~ValidOperation(Operations[e].op)
                   => fragments_of(gc[r].lines, Operations[e]) = {}
        /\ \A s \in folder_starts(gc[r].lines) :
               /\ has_valid_operation(gc[r].lines[s].v)
               /\ auth_starts(gc[r].lines, s) # {}
                      => has_secured_operation(gc[r].lines[s].v)
        /\ Done(r) => gc[r].lines = generate_collection(without_excluded(spec))

\* a run that has not returned is at a place where a step is possible (a
\* loop with entries left or its exit), and has taken no more steps than
\* the document's tags allow: it returns
Completes ==
    /\ gc[1].pc \in {"start", "folders", "requests", "done"}
    /\ gc[1].pc = "folders" => gc[1].ti \in 1..(Len(gc[1].all_tags) + 1)
    /\ gc[1].pc = "requests" =>
           /\ has_tag(gc[1].tags, gc[1].all_tags[gc[1].ti])
           /\ gc[1].ei \in
                  1..(Len(endpoints_of(gc[1].tags, gc[1].all_tags[gc[1].ti])) + 1)
    /\ now <= 5 + 3 * Len(scanned_tags(Operations))

C11_InvalidEntriesSkipped == ExcludedLeaveNoTrace /\ Completes

\* beside a valid operation, an entry without responses that alone carries
\* the tag zeta and security: no folder zeta, no authentication
C11_Witness ==
    /\ Done(1)
    /\ \E e \in 1..Len(Operations) :
           /\ ~ValidOperation(Operations[e].op)
           /\ "tags" \in DOMAIN Operations[e].op
           /\ Secured(Operations[e].op)
    /\ \E e \in 1..Len(Operations) : ValidOperation(Operations[e].op)
    /\ folder_names(gc[1].lines) # <<>>
    /\ s_zeta \notin Range(folder_names(gc[1].lines))
    /\ lines_with(gc[1].lines, "    authentication:") = {}

(***************************************************************************)
(* C14: with mermaid-cli installed and a MAX_WORKERS of at least one, for  *)
(* every set of diagrams and every interleaving of the workers and of      *)
(* their file operations: every call has an idx of its own, and no call    *)
(* reads, writes or unlinks a file named by another call's idx; the input  *)
(* file of a call is there while mmdc runs on it; once main has ended,     *)
(* every diagram was submitted and every call is done, the exit code is 0  *)
(* when all diagrams are valid and 1 when one fails to parse or times      *)
(* out, every diagram that failed to parse or timed out is recorded once   *)
(* against its (path, line) and a valid diagram is not recorded.           *)
(***************************************************************************)
\* line 58: mmdc reports a diagram it cannot parse by a non-zero return code
fails_to_parse(d) == d.mmdc \in {"parse_error", "other_error", "silent_failure"}

\* line 76: mmdc has not answered within 60 s
times_out(d) == d.mmdc = "timeout"

recorded_for(d) ==
    {k \in 1..Len(lint.errors) :
        lint.errors[k].path = d.path /\ lint.errors[k].lineno = d.lineno}

workers_usable == ~IsRaise(MAX_WORKERS) /\ MAX_WORKERS.n >= 1

own_files(j) == {infile(lint.task[j].idx), outfile(lint.task[j].idx)}

C14_LintVerdict ==
    /\ lint.pc # "idle" =>
           /\ \A i, j \in DOMAIN lint.task :
                  i # j => own_files(i) \cap own_files(j) = {}
           /\ \A f \in lint.touched : \A j \in DOMAIN lint.task :
                  j # f.by => f.file \notin own_files(j)
           /\ \A i \in DOMAIN lint.task :
                  lint.task[i].st = "run" => infile(lint.task[i].idx) \in lint.files
    /\ lint.pc = "returned" /\ lint.mmdc_found /\ workers_usable =>
           /\ Len(lint.task) = NDiagrams
           /\ AllFinished
           /\ (\A i \in 1..NDiagrams : lint.diagrams[i].mmdc = "valid")
                  => lint.exit = 0
           /\ (\E i \in 1..NDiagrams :
                  fails_to_parse(lint.diagrams[i]) \/ times_out(lint.diagrams[i]))
                  => lint.exit = 1
           /\ \A i \in 1..NDiagrams :
                  LET d == lint.diagrams[i] IN
                  /\ fails_to_parse(d) \/ times_out(d)
                         => Cardinality(recorded_for(d)) = 1
                  /\ d.mmdc = "valid" => recorded_for(d) = {}

====
